---- MODULE Spec2Model ----
(***************************************************************************)
(* agent-memory: the Vector Record Store (class VectorStore), the skill    *)
(* execution history and recommendations (class SkillManager), the         *)
(* embedding service (class EmbeddingService), file conversion (class      *)
(* ConvertService) and the orchestrator (class AgentMemory) that composes  *)
(* them.                                                                   *)
(*                                                                         *)
(* A JavaScript Map is a sequence of records in insertion order.  A file   *)
(* is its state on disk together with the value JSON.parse yields for its  *)
(* text.  Cosine similarities are exact rationals, kept as the pair        *)
(* <<sign(x) * x^2 numerator, denominator>>, which orders like x itself;   *)
(* success rates and confidences are ratios <<numerator, denominator>>.    *)
(***************************************************************************)
EXTENDS Integers, Sequences, FiniteSets, TLC

VARIABLES
  constructed,       \* the VectorStore instances that exist
  vectors,           \* VectorStore.vectors of each instance
  file,              \* <storagePath>/vectors/vectors.json
  skills,            \* SkillManager.skills
  executionHistory,  \* SkillManager.executionHistory
  historyFile,       \* <storagePath>/skills/history.json
  pending,           \* executeSkill calls suspended at an await
  embeddingService,  \* EmbeddingService: modelName, embedder, isInitialized, loads in flight
  ret                \* the call that settled last and its outcome

vars == <<constructed, vectors, file, skills, executionHistory, historyFile, pending,
          embeddingService, ret>>
storeVars == <<constructed, vectors, file>>
skillVars == <<skills, executionHistory, historyFile, pending>>

\* bounds of the model
MaxHistory == 2
MaxPending == 2

(***************************************************************************)
(* Values                                                                  *)
(***************************************************************************)
\* JavaScript values that may be compared with one another are records
Undefined == [kind |-> "undefined"]
Null == [kind |-> "null"]
Str(s) == [kind |-> "string", v |-> s]
Arr(xs) == [kind |-> "array", v |-> xs]
Obj(o) == [kind |-> "object", v |-> o]

\* the two handles on one storage path: A is the store in use, B is a store
\* constructed later on the same path
Inst == {"A", "B"}

Ids == {"m1", "m2", "m3"}

\* a Date and the ISO string JSON.stringify writes for it
DateOf(ms) == [kind |-> "Date", ms |-> ms]
ISOString(d) == [kind |-> "string", ms |-> d.ms]
\* the timestamp is left as the string read from the file
NewDate_keepsString(s) == s
NewDate(s) == [kind |-> "Date", ms |-> s.ms]

\* MemoryMetadata: an object is a function on the keys it has
MetaDocument == [type |-> Str("document")]
MetaConversation == [type |-> Str("conversation"), source |-> Undefined, tags |-> Arr(<<>>)]
MetaKeys == {"type", "source", "tags", "context"}

\* o.k in JavaScript: undefined when the key is missing
Prop(o, k) == IF k \in DOMAIN o THEN o[k] ELSE Undefined

MemoryEntry(id, content, metadata, ms) ==
  [id |-> id, content |-> content, metadata |-> metadata, timestamp |-> DateOf(ms)]

\* a text is the sequence of the fragments it is concatenated from
\* the entries and embeddings callers hand to store()
StoreInputs ==
  { <<MemoryEntry("m1", <<"c1">>, MetaDocument, 1), <<1, 0>>>>,
    <<MemoryEntry("m1", <<"c2">>, MetaConversation, 2), <<0, 1>>>>,
    <<MemoryEntry("m2", <<"c1">>, MetaDocument, 2), <<1, 1>>>>,
    <<MemoryEntry("m2", <<"c2">>, MetaConversation, 1), <<>>>>,
    <<MemoryEntry("m3", <<"c1">>, MetaConversation, 1), <<1, 0>>>>,
    <<MemoryEntry("m3", <<"c2">>, MetaDocument, 2), <<0, 0>>>>,
    <<MemoryEntry("m3", <<"c1">>, MetaDocument, 2), <<0 - 1, 1>>>> }

QueryEmbeddings == { <<1, 0>>, <<1, 1>>, <<0, 0>>, <<1>> }
Limits == { 0 - 1, 0, 2, 5 }
\* thresholds p/q as <<p, q>>: 0.5 (the default), 0, 0.9, -1
Thresholds == { <<1, 2>>, <<0, 1>>, <<9, 10>>, <<0 - 1, 1>> }

(***************************************************************************)
(* Map<string, {entry, embedding}>                                         *)
(***************************************************************************)
MapIndex(m, id) == { i \in 1..Len(m) : m[i].id = id }
MapHas(m, id) == MapIndex(m, id) # {}
MapGet(m, id) == m[CHOOSE i \in MapIndex(m, id) : TRUE]
\* the new record is laid over the one stored: metadata keys the new entry
\* does not have are kept
MapSet_mergesEntry(m, id, entry, embedding) ==
  IF MapHas(m, id)
    THEN [i \in 1..Len(m) |->
            IF m[i].id = id
              THEN [id |-> id,
                    entry |-> [entry EXCEPT !.metadata = @ @@ m[i].entry.metadata],
                    embedding |-> embedding]
              ELSE m[i]]
    ELSE Append(m, [id |-> id, entry |-> entry, embedding |-> embedding])
\* a push instead of a keyed set
MapSet_appends(m, id, entry, embedding) ==
  Append(m, [id |-> id, entry |-> entry, embedding |-> embedding])
MapSet(m, id, entry, embedding) ==
  LET rec == [id |-> id, entry |-> entry, embedding |-> embedding]
  IN IF MapHas(m, id)
       THEN [i \in 1..Len(m) |-> IF m[i].id = id THEN rec ELSE m[i]]
       ELSE Append(m, rec)
\* the record is looked up and left in place
MapDelete_keeps(m, id) == m
MapDelete(m, id) == SelectSeq(m, LAMBDA r : r.id # id)
MapKeys(m) == { m[i].id : i \in 1..Len(m) }

(***************************************************************************)
(* JSON                                                                    *)
(***************************************************************************)
\* JSON.stringify of an object drops the keys whose value is undefined
StringifyObject(o) == [k \in { j \in DOMAIN o : o[j] # Undefined } |-> o[k]]

\* JSON.stringify of a MemoryEntry: Date.prototype.toJSON gives the ISO string
StringifyEntry(e) ==
  [k \in DOMAIN e |->
     IF k = "metadata" THEN StringifyObject(e.metadata)
     ELSE IF k = "timestamp" THEN ISOString(e.timestamp)
     ELSE e[k]]

(***************************************************************************)
(* VectorStore                                                             *)
(***************************************************************************)
saveVectors(m) ==
  [state |-> "array",
   data |-> [i \in 1..Len(m) |->
               [id |-> m[i].id, entry |-> StringifyEntry(m[i].entry),
                embedding |-> m[i].embedding]]]

\* the for..of loop of loadVectors; an element without `entry` throws at
\* item.entry.timestamp and the catch ends the loop, keeping what was set
RECURSIVE loadItems(_, _)
loadItems(data, m) ==
  IF data = <<>> THEN m
  ELSE LET item == Head(data)
       IN IF "entry" \notin DOMAIN item THEN m
          ELSE LET entry == [item.entry EXCEPT !.timestamp = NewDate(@)]
               IN loadItems(Tail(data), MapSet(m, item.id, entry, item.embedding))

loadVectors(f) ==
  IF f.state = "array" THEN loadItems(f.data, <<>>) ELSE <<>>

get(m, id) == IF MapHas(m, id) THEN MapGet(m, id).entry ELSE Null

getAll(m) == [i \in 1..Len(m) |-> m[i].entry]

count(m) == Len(m)

\* cosineSimilarity: the loop's three sums
RECURSIVE Dot(_, _)
Dot(a, b) == IF a = <<>> THEN 0 ELSE Head(a) * Head(b) + Dot(Tail(a), Tail(b))

Abs(x) == IF x < 0 THEN 0 - x ELSE x

\* x <= y and x >= y for similarities <<n, d>>, d > 0
SimLeq(x, y) == x[1] * y[2] <= y[1] * x[2]
SimGeq(x, y) == SimLeq(y, x)
SimEq(x, y) == SimLeq(x, y) /\ SimLeq(y, x)
\* the threshold p/q in the same form
SimOfRatio(t) == <<t[1] * Abs(t[1]), t[2] * t[2]>>

LengthsDiffer(a, b) == Len(a) # Len(b)

\* the value cosineSimilarity returns when it does not throw
cosineSimilarity(a, b) ==
  LET dotProduct == Dot(a, b)
      normA == Dot(a, a)
      normB == Dot(b, b)
  IN IF normA = 0 \/ normB = 0 THEN <<0, 1>>
     ELSE <<dotProduct * Abs(dotProduct), normA * normB>>

\* Array.prototype.sort((a, b) => b.similarity - a.similarity): stable
\* an unstable sort: the record goes before the records of equal similarity
InsertSorted_tiesFirst(sorted, r) ==
  SelectSeq(sorted, LAMBDA s : ~SimLeq(s.similarity, r.similarity)) \o <<r>> \o
  SelectSeq(sorted, LAMBDA s : SimLeq(s.similarity, r.similarity))
RECURSIVE InsertSorted(_, _)
InsertSorted(sorted, r) ==
  IF sorted = <<>> THEN <<r>>
  ELSE IF SimGeq(Head(sorted).similarity, r.similarity)
         THEN <<Head(sorted)>> \o InsertSorted(Tail(sorted), r)
         ELSE <<r>> \o sorted

\* the sort is left out
SortBySimilarity_unsorted(rs) == rs
RECURSIVE SortBySimilarity(_)
SortBySimilarity(rs) ==
  IF rs = <<>> THEN <<>>
  ELSE InsertSorted(SortBySimilarity(SubSeq(rs, 1, Len(rs) - 1)), rs[Len(rs)])

\* Array.prototype.slice(0, end)
Slice(xs, end) ==
  LET stop == IF end < 0 THEN (IF Len(xs) + end < 0 THEN 0 ELSE Len(xs) + end)
              ELSE (IF end > Len(xs) THEN Len(xs) ELSE end)
  IN SubSeq(xs, 1, stop)

\* the for..of loop of search: the first stored embedding whose length
\* differs from the query's makes cosineSimilarity throw out of search
RECURSIVE searchLoop(_, _, _, _)
searchLoop(m, queryEmbedding, threshold, results) ==
  IF m = <<>> THEN [threw |-> FALSE, results |-> results]
  ELSE IF LengthsDiffer(queryEmbedding, Head(m).embedding)
         THEN [threw |-> TRUE, results |-> <<>>]
         ELSE LET similarity == cosineSimilarity(queryEmbedding, Head(m).embedding)
              IN searchLoop(Tail(m), queryEmbedding, threshold,
                   IF SimGeq(similarity, SimOfRatio(threshold))
                     THEN Append(results, [entry |-> Head(m).entry, similarity |-> similarity])
                     ELSE results)

\* entries of another length are skipped instead of compared
search_skipsMismatch(m, queryEmbedding, limit, threshold) ==
  LET same == SelectSeq(m, LAMBDA r : ~LengthsDiffer(queryEmbedding, r.embedding))
      loop == searchLoop(same, queryEmbedding, threshold, <<>>)
  IN [err |-> "", val |-> Slice(SortBySimilarity(loop.results), limit)]
search(m, queryEmbedding, limit, threshold) ==
  LET loop == searchLoop(m, queryEmbedding, threshold, <<>>)
  IN IF loop.threw
       THEN [err |-> "Vectors must have the same length", val |-> <<>>]
       ELSE [err |-> "", val |-> Slice(SortBySimilarity(loop.results), limit)]

(***************************************************************************)
(* VectorStore operations on the instance s                                *)
(***************************************************************************)
Construct(s) ==
  /\ constructed' = constructed \cup {s}
  /\ vectors' = [vectors EXCEPT ![s] = loadVectors(file)]
  /\ ret' = [op |-> "new", inst |-> s, err |-> ""]
  /\ UNCHANGED <<embeddingService, file, skillVars>>

\* the file is read again before the entry is set
Store_merges(s, entry, embedding) ==
  /\ vectors' = [vectors EXCEPT ![s] = MapSet(loadVectors(file), entry.id, entry, embedding)]
  /\ file' = saveVectors(vectors'[s])
  /\ ret' = [op |-> "store", inst |-> s, id |-> entry.id, entry |-> entry,
             embedding |-> embedding, err |-> ""]
  /\ UNCHANGED <<embeddingService, constructed, skillVars>>
Store(s, entry, embedding) ==
  /\ vectors' = [vectors EXCEPT ![s] = MapSet(@, entry.id, entry, embedding)]
  /\ file' = saveVectors(vectors'[s])
  /\ ret' = [op |-> "store", inst |-> s, id |-> entry.id, entry |-> entry,
             embedding |-> embedding, err |-> ""]
  /\ UNCHANGED <<embeddingService, constructed, skillVars>>

Search(s, queryEmbedding, limit, threshold) ==
  /\ LET r == search(vectors[s], queryEmbedding, limit, threshold)
     IN ret' = [op |-> "search", inst |-> s, query |-> queryEmbedding,
                limit |-> limit, threshold |-> threshold,
                err |-> r.err, val |-> r.val]
  /\ UNCHANGED <<embeddingService, storeVars, skillVars>>

Get(s, id) ==
  /\ ret' = [op |-> "get", inst |-> s, id |-> id, err |-> "", val |-> get(vectors[s], id)]
  /\ UNCHANGED <<embeddingService, storeVars, skillVars>>

GetAll(s) ==
  /\ ret' = [op |-> "getAll", inst |-> s, err |-> "", val |-> getAll(vectors[s])]
  /\ UNCHANGED <<embeddingService, storeVars, skillVars>>

\* the file is written whether or not the id was stored
Delete_alwaysSaves(s, id) ==
  LET deleted == MapHas(vectors[s], id)
  IN /\ vectors' = [vectors EXCEPT ![s] = MapDelete(@, id)]
     /\ file' = saveVectors(vectors'[s])
     /\ ret' = [op |-> "delete", inst |-> s, id |-> id, err |-> "", val |-> deleted]
     /\ UNCHANGED <<embeddingService, constructed, skillVars>>
Delete(s, id) ==
  LET deleted == MapHas(vectors[s], id)
  IN /\ vectors' = [vectors EXCEPT ![s] = MapDelete(@, id)]
     /\ file' = IF deleted THEN saveVectors(vectors'[s]) ELSE file
     /\ ret' = [op |-> "delete", inst |-> s, id |-> id, err |-> "", val |-> deleted]
     /\ UNCHANGED <<embeddingService, constructed, skillVars>>

\* the empty collection is not written to the file
Clear_notSaved(s) ==
  /\ vectors' = [vectors EXCEPT ![s] = <<>>]
  /\ ret' = [op |-> "clear", inst |-> s, err |-> ""]
  /\ UNCHANGED <<embeddingService, constructed, file, skillVars>>
Clear(s) ==
  /\ vectors' = [vectors EXCEPT ![s] = <<>>]
  /\ file' = saveVectors(vectors'[s])
  /\ ret' = [op |-> "clear", inst |-> s, err |-> ""]
  /\ UNCHANGED <<embeddingService, constructed, skillVars>>

Count(s) ==
  /\ ret' = [op |-> "count", inst |-> s, err |-> "", val |-> count(vectors[s])]
  /\ UNCHANGED <<embeddingService, storeVars, skillVars>>

(***************************************************************************)
(* Strings                                                                 *)
(***************************************************************************)
\* the characters /\s/ matches, of those the texts here contain
isWhitespace(c) == c \in {" ", "\n", "\t"}

UpperCase == <<"A", "B", "C", "D", "E", "F", "G", "H", "I", "J", "K", "L", "M",
               "N", "O", "P", "Q", "R", "S", "T", "U", "V", "W", "X", "Y", "Z">>
LowerCase == <<"a", "b", "c", "d", "e", "f", "g", "h", "i", "j", "k", "l", "m",
               "n", "o", "p", "q", "r", "s", "t", "u", "v", "w", "x", "y", "z">>
SetOfLetters == { UpperCase[i] : i \in 1..Len(UpperCase) }
LowerOf == [c \in SetOfLetters |-> LowerCase[CHOOSE i \in 1..Len(UpperCase) : UpperCase[i] = c]]
LowerChar(c) == IF c \in SetOfLetters THEN LowerOf[c] ELSE c

\* String.prototype.toLowerCase
RECURSIVE toLowerCase(_)
toLowerCase(s) == IF s = "" THEN "" ELSE LowerChar(Head(s)) \o toLowerCase(Tail(s))

\* String.prototype.split(/\s+/): a run of whitespace separates two pieces,
\* so leading or trailing whitespace gives an empty piece and "" gives [""]
RECURSIVE splitLoop(_, _, _, _)
splitLoop(s, pieces, current, inRun) ==
  IF s = "" THEN Append(pieces, current)
  ELSE IF isWhitespace(Head(s))
         THEN IF inRun THEN splitLoop(Tail(s), pieces, current, TRUE)
              ELSE splitLoop(Tail(s), Append(pieces, current), "", TRUE)
         ELSE splitLoop(Tail(s), pieces, current \o Head(s), FALSE)
split(s) == splitLoop(s, <<>>, "", FALSE)

\* String.prototype.includes
includes(s, k) == \E i \in 0..(Len(s) - Len(k)) : SubSeq(s, i + 1, i + Len(k)) = k

\* new Set(array)
SetOf(xs) == { xs[i] : i \in 1..Len(xs) }

(***************************************************************************)
(* SkillManager                                                            *)
(***************************************************************************)
\* a Skill; `execute` is code the model does not see: "builtin" is one of
\* builtInSkills, which always resolve with success = true, "custom" is a
\* registered skill whose execute may resolve either way, throw or reject
Skill(id, name, description, execute) ==
  [id |-> id, name |-> name, description |-> description, execute |-> execute]

builtInSkills ==
  << Skill("code-review", "Code Review",
           "Analyze code for quality, security, and best practices", "builtin"),
     Skill("doc-generation", "Documentation Generator",
           "Generate documentation from code and context", "builtin"),
     Skill("test-generation", "Test Generator",
           "Generate unit tests for code", "builtin"),
     Skill("db-optimization", "Database Optimization",
           "Analyze and optimize database queries and schema", "builtin"),
     Skill("refactoring", "Code Refactoring",
           "Suggest code refactoring improvements", "builtin") >>

\* skills callers register: a new id, and a replacement for a built-in
CustomSkills ==
  { Skill("flaky", "Flaky Task", "Custom skill that may fail", "custom"),
    Skill("code-review", "Strict Review", "Review code strictly", "custom") }

\* ids callers ask to execute; "missing" is never registered
SkillIds == { "code-review", "flaky", "missing" }

Queries == { "review code", "optimize database" }

\* the values `new Date()` can have; the system clock is not monotonic
Times == { 1, 2 }

\* the one value `new Date()` has where the time does not matter
SkillTimes == { 1 }

\* what `await skill.execute(context)` can do; a built-in skill resolves
\* with metadata that holds a Date
ExecuteOutcomes(skill) ==
  IF skill.execute = "builtin"
    THEN { [kind |-> "resolve",
            result |-> [success |-> TRUE, output |-> "output",
                        metadata |-> [timestamp |-> DateOf(t)]]] : t \in SkillTimes }
    ELSE { [kind |-> "resolve", result |-> [success |-> TRUE, output |-> "output"]],
           [kind |-> "resolve",
            result |-> [success |-> FALSE, output |-> "null", error |-> "reported"]],
           [kind |-> "throw", isError |-> TRUE, message |-> "boom"],
           [kind |-> "throw", isError |-> FALSE, value |-> "rejected"] }

\* the message of the failure is not captured
CaughtResult_dropsMessage(outcome) ==
  [success |-> FALSE, output |-> "null", error |-> "Skill execution failed"]
\* the catch block of executeSkill: error.message or String(error)
CaughtResult(outcome) ==
  [success |-> FALSE, output |-> "null",
   error |-> IF outcome.isError THEN outcome.message ELSE outcome.value]

SkillsSet(m, skill) ==
  IF \E i \in 1..Len(m) : m[i].id = skill.id
    THEN [i \in 1..Len(m) |-> IF m[i].id = skill.id THEN skill ELSE m[i]]
    ELSE Append(m, skill)
SkillsHas(m, id) == \E i \in 1..Len(m) : m[i].id = id
SkillsGet(m, id) == m[CHOOSE i \in 1..Len(m) : m[i].id = id]

\* JSON.stringify of an object with a Date under `timestamp`
StringifyTimestamp(o) == [o EXCEPT !.timestamp = ISOString(@)]

\* JSON.stringify of a SkillContext: the Dates of the memories and of the
\* metadata become strings
StringifyContext(c) ==
  [k \in DOMAIN c |->
     IF k = "memories" THEN [i \in 1..Len(c.memories) |-> StringifyEntry(c.memories[i])]
     ELSE IF k = "metadata" THEN StringifyTimestamp(c.metadata)
     ELSE c[k]]

\* JSON.stringify of a SkillResult
StringifyResult(r) ==
  [k \in DOMAIN r |-> IF k = "metadata" THEN StringifyTimestamp(r.metadata) ELSE r[k]]

saveHistory(h) ==
  [state |-> "array",
   data |-> [i \in 1..Len(h) |->
               [skillId |-> h[i].skillId, context |-> StringifyContext(h[i].context),
                result |-> StringifyResult(h[i].result),
                timestamp |-> ISOString(h[i].timestamp)]]]

\* the timestamps are left as the strings read from the file
loadHistory_keepsStrings(f) ==
  IF f.state = "array" THEN f.data ELSE <<>>
\* data.map(item => ({...item, timestamp: new Date(item.timestamp)}))
loadHistory(f) ==
  IF f.state = "array"
    THEN [i \in 1..Len(f.data) |-> [f.data[i] EXCEPT !.timestamp = NewDate(@)]]
    ELSE <<>>

\* new SkillManager(storagePath): no skill registered, the history loaded
NewSkillManager(f) == [skills |-> <<>>, executionHistory |-> loadHistory(f)]

FreeCallIds == (1..MaxPending) \ { c.cid : c \in pending }

RegisterSkill(skill) ==
  /\ skills' = SkillsSet(skills, skill)
  /\ ret' = [op |-> "registerSkill", id |-> skill.id, err |-> ""]
  /\ UNCHANGED <<embeddingService, storeVars, executionHistory, historyFile, pending>>

\* the lookup failure is recorded in the history before it is thrown
executeSkillBegin_recordsUnknown(via, skillId, context) ==
  /\ ~SkillsHas(skills, skillId)
  /\ Len(executionHistory) < MaxHistory
  /\ executionHistory' = Append(executionHistory,
        [skillId |-> skillId, context |-> context,
         result |-> [success |-> FALSE, output |-> "null", error |-> "Skill not found"],
         timestamp |-> DateOf(1)])
  /\ historyFile' = saveHistory(executionHistory')
  /\ ret' = [op |-> "executeSkill", via |-> via, id |-> skillId,
             query |-> context.query, err |-> "Skill not found"]
  /\ UNCHANGED pending
\* SkillManager.executeSkill up to `await skill.execute(context)`; `via` is
\* the caller, SkillManager's own or AgentMemory.executeSkill
executeSkillBegin(via, skillId, context) ==
  IF ~SkillsHas(skills, skillId)
    THEN /\ ret' = [op |-> "executeSkill", via |-> via, id |-> skillId,
                    query |-> context.query, err |-> "Skill not found"]
         /\ UNCHANGED <<pending, executionHistory, historyFile>>
    ELSE /\ FreeCallIds # {}
         /\ Len(executionHistory) + Cardinality(pending) < MaxHistory
         /\ pending' = pending \cup
              { [cid |-> CHOOSE c \in FreeCallIds : TRUE, via |-> via,
                 skillId |-> skillId, skill |-> SkillsGet(skills, skillId),
                 context |-> context, stage |-> "execute"] }
         /\ ret' = [op |-> "executeSkill.await", via |-> via, id |-> skillId, err |-> ""]
         /\ UNCHANGED <<executionHistory, historyFile>>

ExecuteSkill(skillId, context) ==
  /\ executeSkillBegin("SkillManager", skillId, context)
  /\ UNCHANGED <<embeddingService, storeVars, skills>>

\* the history entry takes the place of the last one instead of being pushed
ExecuteSkillSettle_replacesLast(call, outcome, now) ==
  LET result == IF outcome.kind = "resolve" THEN outcome.result ELSE CaughtResult(outcome)
      historyEntry == [skillId |-> call.skillId, context |-> call.context,
                       result |-> result, timestamp |-> DateOf(now)]
  IN /\ call.stage = "execute"
     /\ executionHistory' =
          IF executionHistory = <<>> THEN <<historyEntry>>
          ELSE [executionHistory EXCEPT ![Len(executionHistory)] = historyEntry]
     /\ historyFile' = saveHistory(executionHistory')
     /\ IF call.via = "SkillManager"
          THEN /\ pending' = pending \ {call}
               /\ ret' = [op |-> "executeSkill", via |-> "SkillManager", id |-> call.skillId,
                          cid |-> call.cid, err |-> "", val |-> result, outcome |-> outcome]
          ELSE /\ pending' = (pending \ {call}) \cup
                     { [call EXCEPT !.stage = "ingestText"] @@ [result |-> result] }
               /\ ret' = [op |-> "executeSkill.await", via |-> call.via,
                          id |-> call.skillId, err |-> ""]
     /\ UNCHANGED <<embeddingService, storeVars, skills>>
\* the file is written before the entry is pushed
ExecuteSkillSettle_savesBeforePush(call, outcome, now) ==
  LET result == IF outcome.kind = "resolve" THEN outcome.result ELSE CaughtResult(outcome)
      historyEntry == [skillId |-> call.skillId, context |-> call.context,
                       result |-> result, timestamp |-> DateOf(now)]
  IN /\ call.stage = "execute"
     /\ executionHistory' = Append(executionHistory, historyEntry)
     /\ historyFile' = saveHistory(executionHistory)
     /\ IF call.via = "SkillManager"
          THEN /\ pending' = pending \ {call}
               /\ ret' = [op |-> "executeSkill", via |-> "SkillManager", id |-> call.skillId,
                          cid |-> call.cid, err |-> "", val |-> result, outcome |-> outcome]
          ELSE /\ pending' = (pending \ {call}) \cup
                     { [call EXCEPT !.stage = "ingestText"] @@ [result |-> result] }
               /\ ret' = [op |-> "executeSkill.await", via |-> call.via,
                          id |-> call.skillId, err |-> ""]
     /\ UNCHANGED <<embeddingService, storeVars, skills>>
\* the skill settles: try/catch, push of the history entry, saveHistory
ExecuteSkillSettle(call, outcome, now) ==
  LET result == IF outcome.kind = "resolve" THEN outcome.result ELSE CaughtResult(outcome)
      historyEntry == [skillId |-> call.skillId, context |-> call.context,
                       result |-> result, timestamp |-> DateOf(now)]
  IN /\ call.stage = "execute"
     /\ executionHistory' = Append(executionHistory, historyEntry)
     /\ historyFile' = saveHistory(executionHistory')
     /\ IF call.via = "SkillManager"
          THEN /\ pending' = pending \ {call}
               /\ ret' = [op |-> "executeSkill", via |-> "SkillManager", id |-> call.skillId,
                          cid |-> call.cid, err |-> "", val |-> result, outcome |-> outcome]
          ELSE /\ pending' = (pending \ {call}) \cup
                     { [call EXCEPT !.stage = "ingestText"] @@ [result |-> result] }
               /\ ret' = [op |-> "executeSkill.await", via |-> call.via,
                          id |-> call.skillId, err |-> ""]
     /\ UNCHANGED <<embeddingService, storeVars, skills>>

ClearHistory ==
  /\ executionHistory' = <<>>
  /\ historyFile' = saveHistory(executionHistory')
  /\ ret' = [op |-> "clearHistory", err |-> ""]
  /\ UNCHANGED <<embeddingService, storeVars, skills, pending>>

\* the Jaccard similarity of the two queries' word sets is above 0.3
isSimilarContext(context1, context2) ==
  LET words1 == SetOf(split(toLowerCase(context1.query)))
      words2 == SetOf(split(toLowerCase(context2.query)))
      intersection == words1 \cap words2
      union == words1 \cup words2
  IN 10 * Cardinality(intersection) > 3 * Cardinality(union)

\* a skill without matching history counts as never successful
calculateSuccessRate_defaultZero(h, skillId, context) ==
  LET relevantHistory ==
        SelectSeq(h, LAMBDA r : r.skillId = skillId /\ isSimilarContext(r.context, context))
      successfulExecutions == SelectSeq(relevantHistory, LAMBDA r : r.result.success)
  IN IF Len(relevantHistory) = 0 THEN <<0, 1>>
     ELSE <<Len(successfulExecutions), Len(relevantHistory)>>
\* the success rate as the ratio <<successes, executions>>; 0.5 is <<1, 2>>
calculateSuccessRate(h, skillId, context) ==
  LET relevantHistory ==
        SelectSeq(h, LAMBDA r : r.skillId = skillId /\ isSimilarContext(r.context, context))
      successfulExecutions == SelectSeq(relevantHistory, LAMBDA r : r.result.success)
  IN IF Len(relevantHistory) = 0 THEN <<1, 2>>
     ELSE <<Len(successfulExecutions), Len(relevantHistory)>>

\* the loop over the keywords; relevance counts in tenths: 0.3 is 3
RECURSIVE relevanceLoop(_, _, _, _)
relevanceLoop(keywords, skillName, skillDesc, relevance) ==
  IF keywords = <<>> THEN relevance
  ELSE relevanceLoop(Tail(keywords), skillName, skillDesc,
         relevance + (IF includes(skillName, Head(keywords)) THEN 3 ELSE 0)
                   + (IF includes(skillDesc, Head(keywords)) THEN 2 ELSE 0))

\* the sum is returned as it is
calculateRelevance_uncapped(skill, context) ==
  LET keywords == SelectSeq(split(toLowerCase(context.query)), LAMBDA w : Len(w) > 3)
  IN relevanceLoop(keywords, toLowerCase(skill.name), toLowerCase(skill.description), 0)
\* the relevance in tenths, Math.min(relevance, 1.0) being 10
calculateRelevance(skill, context) ==
  LET keywords == SelectSeq(split(toLowerCase(context.query)), LAMBDA w : Len(w) > 3)
      relevance == relevanceLoop(keywords, toLowerCase(skill.name),
                                 toLowerCase(skill.description), 0)
  IN IF relevance < 10 THEN relevance ELSE 10

\* (successRate * 100).toFixed(0)
Percent(successRate) == (200 * successRate[1] + successRate[2]) \div (2 * successRate[2])

generateRecommendationReason(skill, successRate, relevanceScore) ==
  LET high == IF 10 * successRate[1] > 7 * successRate[2]
                THEN << <<"high success rate (", Percent(successRate), "%)">> >> ELSE <<>>
      reasons == IF relevanceScore > 5
                   THEN Append(high, <<"strong relevance to query">>) ELSE high
  IN IF Len(reasons) = 0 THEN << <<"potential match">> >> ELSE reasons

\* (successRate + relevanceScore) / 2 as a ratio
Confidence(successRate, relevanceScore) ==
  <<10 * successRate[1] + relevanceScore * successRate[2], 20 * successRate[2]>>

\* recommendations.sort((a, b) => b.confidence - a.confidence): stable
RECURSIVE InsertByConfidence(_, _)
InsertByConfidence(sorted, r) ==
  IF sorted = <<>> THEN <<r>>
  ELSE IF SimGeq(Head(sorted).confidence, r.confidence)
         THEN <<Head(sorted)>> \o InsertByConfidence(Tail(sorted), r)
         ELSE <<r>> \o sorted

\* the recommendations are returned in the order of registration
SortByConfidence_unsorted(rs) == rs
RECURSIVE SortByConfidence(_)
SortByConfidence(rs) ==
  IF rs = <<>> THEN <<>>
  ELSE InsertByConfidence(SortByConfidence(SubSeq(rs, 1, Len(rs) - 1)), rs[Len(rs)])

recommendSkills(m, h, context, limit) ==
  LET recommendations ==
        [i \in 1..Len(m) |->
           LET successRate == calculateSuccessRate(h, m[i].id, context)
               relevanceScore == calculateRelevance(m[i], context)
           IN [skill |-> m[i],
               confidence |-> Confidence(successRate, relevanceScore),
               reason |-> generateRecommendationReason(m[i], successRate, relevanceScore),
               historicalSuccessRate |-> successRate]]
  IN Slice(SortByConfidence(recommendations), limit)

\* recommendSkills(context, limit = 3); args holds the limit when it is given
RecommendSkills(context, args) ==
  LET limit == IF args = <<>> THEN 3 ELSE args[1]
  IN /\ ret' = [op |-> "recommendSkills", context |-> context, limit |-> limit, err |-> "",
                val |-> recommendSkills(skills, executionHistory, context, limit)]
     /\ UNCHANGED <<embeddingService, storeVars, skillVars>>

getSkillHistory(h, skillId) == SelectSeq(h, LAMBDA r : r.skillId = skillId)

GetSkillHistory(skillId) ==
  /\ ret' = [op |-> "getSkillHistory", id |-> skillId, err |-> "",
             val |-> getSkillHistory(executionHistory, skillId)]
  /\ UNCHANGED <<embeddingService, storeVars, skillVars>>

\* Array.from(this.skills.values())
getSkills(m) == m

GetSkills ==
  /\ ret' = [op |-> "getSkills", err |-> "", val |-> getSkills(skills)]
  /\ UNCHANGED <<embeddingService, storeVars, skillVars>>

(***************************************************************************)
(* EmbeddingService                                                        *)
(***************************************************************************)
DefaultModel == "Xenova/all-MiniLM-L6-v2"
\* a feature-extraction model of another hidden size
OtherModel == "Xenova/all-mpnet-base-v2"

\* the length of output.data of the model's pipeline with mean pooling
ModelDim(modelName) == IF modelName = DefaultModel THEN 384 ELSE 768

\* new Array(384) in simpleFallbackEmbedding
FallbackDim == 384

\* new EmbeddingService(modelName); loading counts the calls of initialize
\* suspended at `await pipeline(...)`
NewEmbeddingService(modelName) ==
  [modelName |-> modelName, embedder |-> "null", isInitialized |-> FALSE, loading |-> 0]

\* String.prototype.charCodeAt for the characters of the texts here
CharCode(c) ==
  IF \E i \in 1..Len(LowerCase) : LowerCase[i] = c
    THEN 96 + (CHOOSE i \in 1..Len(LowerCase) : LowerCase[i] = c)
  ELSE IF c = "," THEN 44
  ELSE IF c = "-" THEN 45
  ELSE IF c = "." THEN 46
  ELSE 63

\* the indices the two loops of simpleFallbackEmbedding add to, in order;
\* i and j count from 0
RECURSIVE fallbackHits(_, _, _)
fallbackHits(words, i, j) ==
  IF i >= Len(words) THEN <<>>
  ELSE IF j >= Len(words[i + 1]) THEN fallbackHits(words, i + 1, 0)
  ELSE <<(CharCode(SubSeq(words[i + 1], j + 1, j + 1)) + j * 17 + i * 31) % FallbackDim>>
         \o fallbackHits(words, i, j + 1)

\* simpleFallbackEmbedding up to the positive factor the normalisation
\* leaves: position k holds the number of additions made at index k - 1
\* (each adds 1 / sqrt(words.length), and the vector is divided by its norm)
simpleFallbackEmbedding(text) ==
  LET words == split(toLowerCase(text))
      hits == fallbackHits(words, 0, 0)
  IN [k \in 1..FallbackDim |-> Cardinality({ h \in 1..Len(hits) : hits[h] = k - 1 })]

\* Array.from(output.data) of a loaded model: code the model does not see,
\* a vector of the model's length that depends on the text alone
ModelOutput(modelName, text) ==
  [k \in 1..ModelDim(modelName) |-> IF k = 1 + Len(text) THEN 1 ELSE 0]

\* initialize() up to `await pipeline(...)`; it returns at once when the
\* service is initialized
EmbeddingInitialize ==
  /\ IF embeddingService.isInitialized
       THEN /\ ret' = [op |-> "initialize", err |-> ""]
            /\ UNCHANGED embeddingService
       ELSE /\ embeddingService.loading < MaxPending
            /\ embeddingService' = [embeddingService EXCEPT !.loading = @ + 1]
            /\ ret' = [op |-> "initialize.await", err |-> ""]
  /\ UNCHANGED <<storeVars, skillVars>>

\* pipeline(...) settles: the embedder is set when the model loaded, and
\* the service counts as initialized either way
EmbeddingInitializeSettle(loaded) ==
  /\ embeddingService.loading > 0
  /\ embeddingService' =
       [embeddingService EXCEPT !.loading = @ - 1,
                                !.isInitialized = TRUE,
                                !.embedder = IF loaded THEN "pipeline" ELSE @]
  /\ ret' = [op |-> "initialize", err |-> ""]
  /\ UNCHANGED <<storeVars, skillVars>>

\* the vector embed returns once the service is initialized; callFails says
\* whether the embedder throws on this call
embedWith(service, text, callFails) ==
  IF service.embedder = "null" THEN simpleFallbackEmbedding(text)
  ELSE IF callFails THEN simpleFallbackEmbedding(text)
  ELSE ModelOutput(service.modelName, text)

\* embed(text) from the point where initialize() has returned
Embed(text, callFails) ==
  /\ embeddingService.isInitialized
  /\ ret' = [op |-> "embed", text |-> text, err |-> "",
             val |-> embedWith(embeddingService, text, callFails)]
  /\ UNCHANGED <<storeVars, skillVars, embeddingService>>

IsReady ==
  /\ ret' = [op |-> "isReady", err |-> "", val |-> embeddingService.isInitialized]
  /\ UNCHANGED <<storeVars, skillVars, embeddingService>>

(***************************************************************************)
(* AgentMemory: vectorStore is the instance "A"                            *)
(***************************************************************************)
\* config.similarityThreshold || 0.5, as the ratio 1/2
similarityThreshold == <<1, 2>>

\* ids generateId can return
GeneratedIds == { "g1" }

\* EmbeddingService.embed as the orchestrator's calls see it when the model
\* is loaded and does not fail: a vector of fixed length (two numbers here)
\* that depends on the text alone
embed(text) ==
  IF text = <<"review code">> THEN <<1, 0>>
  ELSE IF text = <<"optimize database">> THEN <<1, 1>>
  ELSE <<0, 1>>

\* the callback of results.filter in applyFilters: a filter that is missing
\* or falsy ('' for type and source) or an empty list of tags rejects nothing
passesFilters(entry, filters) ==
  LET entryTags == IF Prop(entry.metadata, "tags") = Undefined THEN <<>>
                   ELSE entry.metadata.tags.v
  IN /\ ~("type" \in DOMAIN filters /\ filters.type # ""
            /\ Prop(entry.metadata, "type") # Str(filters.type))
     /\ ~("source" \in DOMAIN filters /\ filters.source # ""
            /\ Prop(entry.metadata, "source") # Str(filters.source))
     /\ ~("tags" \in DOMAIN filters /\ Len(filters.tags) > 0
            /\ ~\E i \in 1..Len(filters.tags) : filters.tags[i] \in SetOf(entryTags))

applyFilters(results, filters) ==
  SelectSeq(results, LAMBDA result : passesFilters(result.entry, filters))

\* the filters are applied to the entries before the search cuts at the limit
recall_filtersFirst(query, options) ==
  LET limit == IF "limit" \in DOMAIN options /\ options.limit # 0
                 THEN options.limit ELSE 5
      threshold == IF "threshold" \in DOMAIN options /\ options.threshold[1] # 0
                     THEN options.threshold ELSE similarityThreshold
      kept == IF "filters" \in DOMAIN options
                THEN SelectSeq(vectors["A"], LAMBDA r : passesFilters(r.entry, options.filters))
                ELSE vectors["A"]
  IN search(kept, embed(<<query>>), limit, threshold)
\* recall(query, options); a limit or threshold of 0 is falsy, so `||` puts
\* the default in its place; a search that throws throws out of recall
recall(query, options) ==
  LET limit == IF "limit" \in DOMAIN options /\ options.limit # 0
                 THEN options.limit ELSE 5
      threshold == IF "threshold" \in DOMAIN options /\ options.threshold[1] # 0
                     THEN options.threshold ELSE similarityThreshold
      results == search(vectors["A"], embed(<<query>>), limit, threshold)
  IN IF results.err = "" /\ "filters" \in DOMAIN options
       THEN [err |-> "", val |-> applyFilters(results.val, options.filters)]
       ELSE results

AgentRecall(query, options) ==
  /\ LET r == recall(query, options)
     IN ret' = [op |-> "recall", query |-> query, options |-> options,
                err |-> r.err, val |-> r.val]
  /\ UNCHANGED <<embeddingService, storeVars, skillVars>>

\* AgentMemory.executeSkill up to the await inside SkillManager.executeSkill:
\* recall throws out of the call, and so does an unregistered skill id
AgentExecuteSkill(skillId, query, now) ==
  LET memories == recall(query, [limit |-> 3])
      context == [query |-> query,
                  memories |-> [i \in 1..Len(memories.val) |-> memories.val[i].entry],
                  metadata |-> [timestamp |-> DateOf(now)]]
  IN /\ IF memories.err # ""
          THEN /\ ret' = [op |-> "executeSkill", via |-> "AgentMemory", id |-> skillId,
                          query |-> query, err |-> memories.err]
               /\ UNCHANGED <<pending, executionHistory, historyFile>>
          ELSE executeSkillBegin("AgentMemory", skillId, context)
     /\ UNCHANGED <<embeddingService, storeVars, skills>>

\* the rest of AgentMemory.executeSkill: ingestText of the execution
AgentExecuteSkillIngest(call, memoryId, now) ==
  LET text == <<"Skill executed: ", call.skillId, "\nQuery: ", call.context.query,
                "\nResult: ", call.result.output>>
      embedding == embed(text)
      entry == [id |-> memoryId, content |-> text,
                metadata |-> [type |-> Str("experience"), source |-> Undefined,
                              tags |-> Arr(<<"skill-execution", call.skillId>>),
                              context |-> Obj([skillId |-> call.skillId,
                                               success |-> call.result.success])],
                embedding |-> embedding,
                timestamp |-> DateOf(now)]
  IN /\ call.stage = "ingestText"
     /\ ~MapHas(vectors["A"], memoryId)
     /\ vectors' = [vectors EXCEPT !["A"] = MapSet(@, entry.id, entry, embedding)]
     /\ file' = saveVectors(vectors'["A"])
     /\ pending' = pending \ {call}
     /\ ret' = [op |-> "executeSkill", via |-> "AgentMemory", id |-> call.skillId,
                err |-> "", val |-> call.result, memoryId |-> memoryId]
     /\ UNCHANGED <<embeddingService, constructed, skills, executionHistory, historyFile>>

\* the for..of loop of getStats over the entries of getAll(); the type of
\* an entry is a string or missing
RECURSIVE getStatsLoop(_, _)
getStatsLoop(memories, stats) ==
  IF memories = <<>> THEN stats
  ELSE LET memory == Head(memories)
           type == Prop(memory.metadata, "type")
           key == IF type = Undefined THEN "undefined" ELSE type.v
           n == IF key \in DOMAIN stats.memoryTypes THEN stats.memoryTypes[key] ELSE 0
           oldest == IF stats.oldestMemory = Undefined
                          \/ memory.timestamp.ms < stats.oldestMemory.ms
                       THEN memory.timestamp ELSE stats.oldestMemory
           newest == IF stats.newestMemory = Undefined
                          \/ memory.timestamp.ms > stats.newestMemory.ms
                       THEN memory.timestamp ELSE stats.newestMemory
       IN getStatsLoop(Tail(memories),
            [stats EXCEPT !.memoryTypes =
                            [k \in DOMAIN @ \cup {key} |-> IF k = key THEN n + 1 ELSE @[k]],
                          !.oldestMemory = oldest,
                          !.newestMemory = newest])

getStats(m) ==
  getStatsLoop(getAll(m),
    [totalMemories |-> Len(getAll(m)), memoryTypes |-> << >>, storageSize |-> 0,
     oldestMemory |-> Undefined, newestMemory |-> Undefined])

AgentGetStats ==
  /\ ret' = [op |-> "getStats", err |-> "", val |-> getStats(vectors["A"])]
  /\ UNCHANGED <<embeddingService, storeVars, skillVars>>

\* the skill history is left as it is
AgentClear_keepsHistory ==
  /\ vectors' = [vectors EXCEPT !["A"] = <<>>]
  /\ file' = saveVectors(vectors'["A"])
  /\ ret' = [op |-> "AgentMemory.clear", err |-> "",
             memories |-> count(vectors["A"]), records |-> Len(executionHistory)]
  /\ UNCHANGED <<embeddingService, constructed, skills, pending, executionHistory, historyFile>>
\* AgentMemory.clear with no other call in between: vectorStore.clear(),
\* then skillManager.clearHistory(); ret keeps how much there was to clear
AgentClear ==
  /\ vectors' = [vectors EXCEPT !["A"] = <<>>]
  /\ file' = saveVectors(vectors'["A"])
  /\ executionHistory' = <<>>
  /\ historyFile' = saveHistory(executionHistory')
  /\ ret' = [op |-> "AgentMemory.clear", err |-> "",
             memories |-> count(vectors["A"]), records |-> Len(executionHistory)]
  /\ UNCHANGED <<embeddingService, constructed, skills, pending>>


(***************************************************************************)
(* ConvertService                                                          *)
(***************************************************************************)
supportedFormats ==
  { ".txt", ".md", ".json", ".yaml", ".yml",
    ".js", ".ts", ".py", ".java", ".cpp", ".c", ".go", ".rs",
    ".html", ".css", ".xml", ".csv",
    ".pdf", ".docx" }

\* String.prototype.lastIndexOf, 1-based, 0 when c does not occur
LastIndexOf(s, c) ==
  LET at == { i \in 1..Len(s) : SubSeq(s, i, i) = c }
  IN IF at = {} THEN 0 ELSE CHOOSE i \in at : \A j \in at : j <= i

\* path.extname: from the last dot of the base name, "" when there is none
\* or the base name starts with it
extname(filePath) ==
  LET base == SubSeq(filePath, LastIndexOf(filePath, "/") + 1, Len(filePath))
      dot == LastIndexOf(base, ".")
  IN IF dot <= 1 THEN "" ELSE SubSeq(base, dot, Len(base))

isSupported(filePath) == toLowerCase(extname(filePath)) \in supportedFormats

\* the format is looked at before the file
convertToText_formatFirst(doc) ==
  LET ext == toLowerCase(extname(doc.path))
  IN IF ~isSupported(doc.path)
       THEN [err |-> "Unsupported file format: " \o ext]
     ELSE IF ~doc.exists
       THEN [err |-> "File not found: " \o doc.path]
     ELSE IF ext \in {".pdf", ".docx"} /\ ~doc.parses
       THEN [err |-> "Failed to convert"]
     ELSE [err |-> "", content |-> doc.text,
           metadata |-> [originalFormat |-> SubSeq(ext, 2, Len(ext))]]
\* convertToText of the file `doc` on disk: existsSync, isSupported, then
\* the reader of the format; pdf-parse and mammoth may throw
convertToText(doc) ==
  LET ext == toLowerCase(extname(doc.path))
  IN IF ~doc.exists
       THEN [err |-> "File not found: " \o doc.path]
     ELSE IF ~isSupported(doc.path)
       THEN [err |-> "Unsupported file format: " \o ext]
     ELSE IF ext \in {".pdf", ".docx"} /\ ~doc.parses
       THEN [err |-> "Failed to convert"]
     ELSE [err |-> "", content |-> doc.text,
           metadata |-> [originalFormat |-> SubSeq(ext, 2, Len(ext))]]

(***************************************************************************)
(* AgentMemory.ingest                                                      *)
(***************************************************************************)
\* text.split(/\n\n+/): newlines counts the line feeds just read, 2 for a
\* separator that has been taken
RECURSIVE splitParagraphsLoop(_, _, _, _)
splitParagraphsLoop(s, pieces, current, newlines) ==
  IF s = "" THEN Append(pieces, IF newlines = 1 THEN current \o "\n" ELSE current)
  ELSE IF Head(s) = "\n"
         THEN IF newlines = 0 THEN splitParagraphsLoop(Tail(s), pieces, current, 1)
              ELSE IF newlines = 1
                     THEN splitParagraphsLoop(Tail(s), Append(pieces, current), "", 2)
                     ELSE splitParagraphsLoop(Tail(s), pieces, current, 2)
         ELSE splitParagraphsLoop(Tail(s), pieces,
                (IF newlines = 1 THEN current \o "\n" ELSE current) \o Head(s), 0)
splitParagraphs(text) == splitParagraphsLoop(text, <<>>, "", 0)

\* the for..of loop of chunkText and the push after it
RECURSIVE chunkLoop(_, _, _, _)
chunkLoop(paragraphs, maxChunkSize, chunks, currentChunk) ==
  IF paragraphs = <<>>
    THEN IF currentChunk # "" THEN Append(chunks, currentChunk) ELSE chunks
  ELSE LET paragraph == Head(paragraphs)
       IN IF Len(currentChunk) + Len(paragraph) <= maxChunkSize
            THEN chunkLoop(Tail(paragraphs), maxChunkSize, chunks,
                   currentChunk \o (IF currentChunk # "" THEN "\n\n" ELSE "") \o paragraph)
            ELSE chunkLoop(Tail(paragraphs), maxChunkSize,
                   IF currentChunk # "" THEN Append(chunks, currentChunk) ELSE chunks,
                   paragraph)

chunkText(text, maxChunkSize) ==
  LET chunks == chunkLoop(splitParagraphs(text), maxChunkSize, <<>>, "")
  IN IF Len(chunks) > 0 THEN chunks ELSE <<text>>

\* chunkText(text, maxChunkSize) called by itself
ChunkText(text, maxChunkSize) ==
  /\ ret' = [op |-> "chunkText", text |-> text, maxChunkSize |-> maxChunkSize, err |-> "",
             val |-> chunkText(text, maxChunkSize)]
  /\ UNCHANGED <<embeddingService, storeVars, skillVars>>

\* the chunk index is counted from one
ingestMetadata_fromOne(filePath, options, i, totalChunks, originalFormat) ==
  [source |-> Str(IF "source" \in DOMAIN options /\ options.source # ""
                    THEN options.source ELSE filePath),
   type |-> Str("document"),
   tags |-> Arr(IF "tags" \in DOMAIN options THEN options.tags ELSE <<>>),
   context |-> Obj([chunkIndex |-> i + 1, totalChunks |-> totalChunks,
                    originalFormat |-> originalFormat])]
\* the metadata of the entry of chunk i, i counted from 0
ingestMetadata(filePath, options, i, totalChunks, originalFormat) ==
  [source |-> Str(IF "source" \in DOMAIN options /\ options.source # ""
                    THEN options.source ELSE filePath),
   type |-> Str("document"),
   tags |-> Arr(IF "tags" \in DOMAIN options THEN options.tags ELSE <<>>),
   context |-> Obj([chunkIndex |-> i, totalChunks |-> totalChunks,
                    originalFormat |-> originalFormat])]

\* the for loop of ingest from chunk i on: one entry stored per chunk under
\* the id generateId returned for it
RECURSIVE ingestLoop(_, _, _, _, _, _, _, _)
ingestLoop(m, filePath, options, chunks, originalFormat, i, memoryIds, now) ==
  IF i >= Len(chunks) THEN m
  ELSE LET chunk == chunks[i + 1]
           memoryId == memoryIds[i + 1]
           embedding == IF "generateEmbedding" \in DOMAIN options /\ ~options.generateEmbedding
                          THEN <<>> ELSE embed(<<chunk>>)
           entry == [id |-> memoryId, content |-> <<chunk>>,
                     metadata |-> ingestMetadata(filePath, options, i, Len(chunks),
                                                 originalFormat),
                     embedding |-> embedding,
                     timestamp |-> DateOf(now)]
       IN ingestLoop(MapSet(m, entry.id, entry, embedding), filePath, options, chunks,
                     originalFormat, i + 1, memoryIds, now)

\* options.chunkSize || 1000
ChunkSizeOf(options) ==
  IF "chunkSize" \in DOMAIN options /\ options.chunkSize # 0 THEN options.chunkSize ELSE 1000

\* the sequences of n ids generateId can return: 16 random bytes, taken to
\* be distinct from one another and from the ids stored
FreshIds(m, n, pool) ==
  { ids \in [1..n -> pool \ MapKeys(m)] : \A i, j \in 1..n : i # j => ids[i] # ids[j] }

\* AgentMemory.ingest(filePath, options) with no other call in between;
\* the value returned is the list memoryIds that the code joins with ','
AgentIngest(doc, options, pool, now) ==
  LET conversionResult == convertToText(doc)
  IN IF conversionResult.err # ""
       THEN /\ ret' = [op |-> "ingest", doc |-> doc, options |-> options,
                       err |-> conversionResult.err]
            /\ UNCHANGED <<embeddingService, storeVars, skillVars>>
       ELSE LET chunks == chunkText(conversionResult.content, ChunkSizeOf(options))
            IN \E memoryIds \in FreshIds(vectors["A"], Len(chunks), pool) :
                 /\ vectors' = [vectors EXCEPT !["A"] =
                      ingestLoop(@, doc.path, options, chunks,
                                 conversionResult.metadata.originalFormat, 0, memoryIds, now)]
                 /\ file' = saveVectors(vectors'["A"])
                 /\ ret' = [op |-> "ingest", doc |-> doc, options |-> options, err |-> "",
                            chunks |-> chunks, val |-> memoryIds]
                 /\ UNCHANGED <<embeddingService, constructed, skillVars>>

(***************************************************************************)
(* Files found at construction                                             *)
(***************************************************************************)
FileMissing == [state |-> "missing", data |-> <<>>]
\* readFileSync throws
FileUnreadable == [state |-> "unreadable", data |-> <<>>]
\* JSON.parse throws
FileInvalidJSON == [state |-> "invalid", data |-> <<>>]
\* valid JSON that is not a list: for..of throws
FileNotAList == [state |-> "object", data |-> <<>>]

SavedItem(p) ==
  [id |-> p[1].id, entry |-> StringifyEntry(p[1]), embedding |-> p[2]]
Item1 == SavedItem(<<MemoryEntry("m1", <<"c1">>, MetaDocument, 1), <<1, 0>>>>)
Item2 == SavedItem(<<MemoryEntry("m2", <<"c1">>, MetaDocument, 2), <<1, 1>>>>)
\* an element that has no `entry`
Malformed == [id |-> "m3"]

InitFiles ==
  { FileMissing, FileUnreadable, FileInvalidJSON, FileNotAList,
    [state |-> "array", data |-> <<>>],
    [state |-> "array", data |-> <<Item1, Item2>>],
    [state |-> "array", data |-> <<Malformed, Item1>>],
    [state |-> "array", data |-> <<Item1, Malformed, Item2>>] }

(***************************************************************************)
(* Specifications                                                          *)
(***************************************************************************)
\* everything but the embedding service
InitBase(files) ==
  /\ file \in files
  /\ constructed = {"A"}
  /\ vectors = [s \in Inst |-> IF s = "A" THEN loadVectors(file) ELSE <<>>]
  /\ skills = builtInSkills
  /\ historyFile = FileMissing
  /\ executionHistory = loadHistory(historyFile)
  /\ pending = {}
  /\ ret = [op |-> "new", inst |-> "A", err |-> ""]

InitWith(files) ==
  /\ InitBase(files)
  /\ embeddingService = NewEmbeddingService(DefaultModel)

Init == InitWith(InitFiles)

\* one VectorStore in use; once its last call has returned, stores are
\* constructed on its path and read
Next ==
  \/ \E p \in StoreInputs : constructed = {"A"} /\ Store("A", p[1], p[2])
  \/ \E q \in QueryEmbeddings, l \in Limits, t \in Thresholds : Search("A", q, l, t)
  \/ \E s \in constructed, id \in Ids : Get(s, id)
  \/ \E s \in constructed : GetAll(s)
  \/ \E id \in Ids : constructed = {"A"} /\ Delete("A", id)
  \/ constructed = {"A"} /\ Clear("A")
  \/ \E s \in constructed : Count(s)
  \/ Construct("B")

Spec == Init /\ [][Next]_vars

\* the skill manager and the orchestrator over a store with few entries
SkillStoreInputs ==
  { <<MemoryEntry("m1", <<"c1">>, MetaDocument, 1), <<1, 0>>>>,
    <<MemoryEntry("m2", <<"c2">>, MetaConversation, 1), <<>>>> }

Contexts == { [query |-> "review code"] }
AgentQueries == { "review code" }
RegisteredLater == { sk \in CustomSkills : sk.id = "flaky" }

InitSkills == InitWith({FileMissing})

\* calls are issued one at a time: a call starts when none is suspended
NextSkills ==
  \/ \E p \in SkillStoreInputs : pending = {} /\ Store("A", p[1], p[2])
  \/ pending = {} /\ Clear("A")
  \/ \E skill \in RegisteredLater : pending = {} /\ RegisterSkill(skill)
  \/ \E id \in SkillIds, c \in Contexts : pending = {} /\ ExecuteSkill(id, c)
  \/ \E call \in pending : \E o \in ExecuteOutcomes(call.skill), now \in SkillTimes :
       ExecuteSkillSettle(call, o, now)
  \/ \E id \in SkillIds, q \in AgentQueries, now \in SkillTimes :
       pending = {} /\ AgentExecuteSkill(id, q, now)
  \/ \E call \in pending : \E id \in GeneratedIds, now \in SkillTimes :
       AgentExecuteSkillIngest(call, id, now)
  \/ pending = {} /\ ClearHistory

SpecSkills == InitSkills /\ [][NextSkills]_vars

\* recommendations over a history of executions that resolved
ExecutedIds == { "refactoring", "flaky" }
ExecutedContexts == { [query |-> "code refactoring improvements"],
                      [query |-> "optimize database"] }
RecommendContexts == { [query |-> " Improvements by  refactoring CODE"],
                       [query |-> "review code"] }
RecommendArgs == { <<>>, <<0>>, <<2>>, <<9>> }
Resolved(skill) == { o \in ExecuteOutcomes(skill) : o.kind = "resolve" }

NextRecommend ==
  \/ \E skill \in RegisteredLater : pending = {} /\ RegisterSkill(skill)
  \/ \E id \in ExecutedIds, c \in ExecutedContexts : pending = {} /\ ExecuteSkill(id, c)
  \/ \E call \in pending : \E o \in Resolved(call.skill), now \in SkillTimes :
       ExecuteSkillSettle(call, o, now)
  \/ pending = {} /\ ClearHistory
  \/ \E c \in RecommendContexts, args \in RecommendArgs : pending = {} /\ RecommendSkills(c, args)

SpecRecommend == InitSkills /\ [][NextRecommend]_vars

\* the orchestrator's ingest and recall over files on disk
DocFile(path, exists, text, parses) ==
  [path |-> path, exists |-> exists, text |-> text, parses |-> parses]
DocFiles ==
  { DocFile("docs/notes.md", TRUE, "review code\n\n\noptimize database", TRUE),
    DocFile("empty.txt", TRUE, "", TRUE),
    DocFile("missing.txt", FALSE, "", TRUE),
    DocFile("sheet.xlsx", TRUE, "a,b", TRUE),
    DocFile("nope.xyz", FALSE, "", TRUE),
    DocFile("paper.PDF", TRUE, "review code", TRUE),
    DocFile("broken.pdf", TRUE, "", FALSE) }
IngestOptions ==
  { << >>,
    [chunkSize |-> 12],
    [chunkSize |-> 0, generateEmbedding |-> FALSE, source |-> "manual", tags |-> <<"t">>] }
IngestIds == { "g1", "g2", "g3" }
RecallQueries == { "review code", "optimize database" }
RecallOptions ==
  { << >>, [limit |-> 0], [limit |-> 1], [threshold |-> <<0, 1>>],
    [limit |-> 2, threshold |-> <<9, 10>>] }

NextAgent ==
  \/ \E doc \in DocFiles, o \in IngestOptions, now \in SkillTimes :
       AgentIngest(doc, o, IngestIds, now)
  \/ \E q \in RecallQueries, o \in RecallOptions : AgentRecall(q, o)
  \/ Clear("A")

SpecAgent == InitSkills /\ [][NextAgent]_vars

\* two VectorStore instances on one storage path, both storing
WriterInputs ==
  { <<MemoryEntry("m1", <<"c1">>, MetaDocument, 1), <<1, 0>>>>,
    <<MemoryEntry("m1", <<"c2">>, MetaConversation, 2), <<0, 1>>>>,
    <<MemoryEntry("m2", <<"c1">>, MetaDocument, 2), <<1, 1>>>>,
    <<MemoryEntry("m3", <<"c1">>, MetaConversation, 1), <<>>>> }

InitTwoWriters == InitWith({ FileMissing, [state |-> "array", data |-> <<Item1>>] })

NextTwoWriters ==
  \/ "B" \notin constructed /\ Construct("B")
  \/ \E s \in constructed, p \in WriterInputs : Store(s, p[1], p[2])
  \/ \E s \in constructed, id \in Ids : Get(s, id)

SpecTwoWriters == InitTwoWriters /\ [][NextTwoWriters]_vars

\* the embedding service by itself, on the default model or another one
EmbedTexts == { "review code", "Review  Code", "code review", "optimize database",
                "re-check a.b, now", "", "a", " \n" }

InitEmbedding ==
  /\ InitBase({FileMissing})
  /\ embeddingService \in { NewEmbeddingService(DefaultModel), NewEmbeddingService(OtherModel) }

NextEmbedding ==
  \/ EmbeddingInitialize
  \/ \E loaded \in BOOLEAN : EmbeddingInitializeSettle(loaded)
  \/ \E text \in EmbedTexts, callFails \in BOOLEAN : Embed(text, callFails)
  \/ IsReady

SpecEmbedding == InitEmbedding /\ [][NextEmbedding]_vars

\* the orchestrator's clear and getStats over memories and executions
ClearSkillIds == { "code-review", "flaky" }
ClearIds == { "g1", "g2" }

NextClear ==
  \/ \E p \in SkillStoreInputs : pending = {} /\ Store("A", p[1], p[2])
  \/ \E skill \in RegisteredLater : pending = {} /\ RegisterSkill(skill)
  \/ \E id \in ClearSkillIds, q \in AgentQueries, now \in SkillTimes :
       pending = {} /\ AgentExecuteSkill(id, q, now)
  \/ \E call \in pending : \E o \in ExecuteOutcomes(call.skill), now \in SkillTimes :
       ExecuteSkillSettle(call, o, now)
  \/ \E call \in pending : \E id \in ClearIds, now \in Times :
       AgentExecuteSkillIngest(call, id, now)
  \/ pending = {} /\ AgentGetStats
  \/ pending = {} /\ AgentClear

SpecClear == InitSkills /\ [][NextClear]_vars


\* the chunker by itself over documents of up to three paragraphs
ChunkParagraphs == { "a", "bbb", "ccccc" }
ChunkTexts ==
  { "", "\n\n", "\n\nbbb", "a\n\n" }
  \cup ChunkParagraphs
  \cup { p \o s \o q : p \in ChunkParagraphs, q \in ChunkParagraphs, s \in {"\n\n", "\n\n\n"} }
  \cup { p \o "\n\n" \o q \o "\n\n" \o r :
           p \in ChunkParagraphs, q \in ChunkParagraphs, r \in ChunkParagraphs }
ChunkSizes == 1..9

NextChunk == \E text \in ChunkTexts, size \in ChunkSizes : ChunkText(text, size)

SpecChunk == InitSkills /\ [][NextChunk]_vars


\* success rates over a history of executions in similar and other contexts
RateContexts == { [query |-> "Review Code"], [query |-> " deploy"] }
RateQueries == { [query |-> "Code code review now"], [query |-> " review"],
                 [query |-> "code quality gates"] }
RateArgs == { <<>>, <<9>> }

NextRate ==
  \/ \E skill \in RegisteredLater : pending = {} /\ RegisterSkill(skill)
  \/ \E id \in ExecutedIds, c \in RateContexts : pending = {} /\ ExecuteSkill(id, c)
  \/ \E call \in pending : \E o \in Resolved(call.skill), now \in SkillTimes :
       ExecuteSkillSettle(call, o, now)
  \/ pending = {} /\ ClearHistory
  \/ \E c \in RateQueries, args \in RateArgs : pending = {} /\ RecommendSkills(c, args)

SpecRate == InitSkills /\ [][NextRate]_vars


\* recall with filters over entries of several types, sources and tags
FilterMeta(type, source, tags) == [type |-> Str(type), source |-> source, tags |-> Arr(tags)]
FilterInputs ==
  { <<MemoryEntry("m1", <<"c1">>, FilterMeta("document", Str("project-docs"), <<"database">>), 1),
      <<1, 0>>>>,
    <<MemoryEntry("m1", <<"c2">>, FilterMeta("conversation", Undefined, <<>>), 2), <<1, 1>>>>,
    <<MemoryEntry("m2", <<"c1">>, FilterMeta("document", Str("notes"), <<"auth", "database">>), 1),
      <<1, 1>>>>,
    <<MemoryEntry("m3", <<"c1">>, FilterMeta("experience", Undefined, <<"auth">>), 1), <<2, 1>>>>,
    <<MemoryEntry("m3", <<"c2">>, MetaDocument, 2), <<1, 0>>>> }
Filters ==
  { << >>,
    [type |-> "document"],
    [source |-> "project-docs"],
    [tags |-> <<"v2", "auth">>],
    [tags |-> <<>>],
    [source |-> ""],
    [type |-> "document", tags |-> <<"database">>, source |-> "notes"] }
FilterOptions ==
  { [filters |-> f] : f \in Filters }
  \cup { [limit |-> 1, filters |-> f] : f \in Filters }
  \cup { [limit |-> 2, threshold |-> <<9, 10>>, filters |-> f] : f \in Filters }
  \cup { << >>, [limit |-> 1] }

NextFilter ==
  \/ \E p \in FilterInputs : Store("A", p[1], p[2])
  \/ \E id \in Ids : Delete("A", id)
  \/ \E q \in RecallQueries, o \in FilterOptions : AgentRecall(q, o)

SpecFilter == InitSkills /\ [][NextFilter]_vars


\* executeSkill calls on one SkillManager that overlap: a call may start
\* while the skills of others are running, and the skills finish in any order
OverlapIds == { "code-review", "flaky" }
OverlapContexts == { [query |-> "review code"], [query |-> "optimize database"] }

NextOverlap ==
  \/ \E skill \in RegisteredLater : RegisterSkill(skill)
  \/ \E id \in OverlapIds, c \in OverlapContexts : ExecuteSkill(id, c)
  \/ \E call \in pending : \E o \in ExecuteOutcomes(call.skill), now \in SkillTimes :
       ExecuteSkillSettle(call, o, now)

SpecOverlap == InitSkills /\ [][NextOverlap]_vars


\* the read operations of the store and of the skill manager, between
\* calls that change them and while a skill is running
ReadQueries == { <<1, 0>>, <<1>> }

NextReads ==
  \/ \E p \in SkillStoreInputs : pending = {} /\ Store("A", p[1], p[2])
  \/ \E skill \in RegisteredLater : pending = {} /\ RegisterSkill(skill)
  \/ \E id \in OverlapIds, c \in Contexts : pending = {} /\ ExecuteSkill(id, c)
  \/ \E call \in pending : \E o \in ExecuteOutcomes(call.skill), now \in SkillTimes :
       ExecuteSkillSettle(call, o, now)
  \/ \E id \in Ids : Get("A", id)
  \/ GetAll("A")
  \/ Count("A")
  \/ \E q \in ReadQueries : Search("A", q, 2, similarityThreshold)
  \/ \E id \in Ids : Delete("A", id)
  \/ \E c \in Contexts : RecommendSkills(c, <<>>)
  \/ GetSkills
  \/ \E id \in SkillIds : GetSkillHistory(id)

SpecReads == InitSkills /\ [][NextReads]_vars


(***************************************************************************)
(* Properties of the Vector Record Store (specification Spec)              *)
(***************************************************************************)
\* what a caller can observe of two collections being the same: the count,
\* the ids and, per id, content, metadata properties, embedding, timestamp
SameCollection(x, y) ==
  /\ count(x) = count(y)
  /\ MapKeys(x) = MapKeys(y)
  /\ \A id \in MapKeys(x) :
       LET a == MapGet(x, id)
           b == MapGet(y, id)
       IN /\ a.entry.id = b.entry.id
          /\ a.entry.content = b.entry.content
          /\ \A k \in MetaKeys : Prop(a.entry.metadata, k) = Prop(b.entry.metadata, k)
          /\ a.entry.timestamp = b.entry.timestamp
          /\ a.embedding = b.embedding

Touches(r, id) ==
  \/ r.op = "clear"
  \/ r.op \in {"store", "delete"} /\ r.id = id

\* C2: after store(e, v) get(e.id) returns e, and keeps doing so until a
\* store or delete of that id or a clear; get of an id not stored is null
C2_GetReturnsStoredEntry ==
  [][ /\ ret'.op = "store" => get(vectors'["A"], ret'.id) = ret'.entry
      /\ \A id \in Ids :
           ~Touches(ret', id) => get(vectors'["A"], id) = get(vectors["A"], id)
      /\ (ret'.op = "get" /\ ret'.inst = "A") =>
           /\ ret'.val = get(vectors["A"], ret'.id)
           /\ ~MapHas(vectors["A"], ret'.id) => ret'.val = Null
           /\ MapHas(vectors["A"], ret'.id) => ret'.val.id = ret'.id ]_vars

C2_Witness ==
  /\ ret.op = "get" /\ ret.inst = "A" /\ ret.id = "m1"
  /\ ret.val = MemoryEntry("m1", <<"c2">>, MetaConversation, 2)
  /\ count(vectors["A"]) = 3
  /\ vectors["A"][1].id = "m1"

\* the ids of the entries a search returned
ReturnedIds(val) == { val[i].entry.id : i \in 1..Len(val) }

\* C3: for limit >= 0 every result of search is at or above the threshold,
\* similarities do not increase along the list, the list has at most
\* `limit` elements, and no entry left out is strictly more similar to the
\* query than a returned one
C3_SearchIsThresholdedSortedTopK ==
  (ret.op = "search" /\ ret.err = "" /\ ret.limit >= 0) =>
    /\ \A i \in 1..Len(ret.val) :
         SimGeq(ret.val[i].similarity, SimOfRatio(ret.threshold))
    /\ \A i, j \in 1..Len(ret.val) :
         i < j => SimGeq(ret.val[i].similarity, ret.val[j].similarity)
    /\ Len(ret.val) <= ret.limit
    /\ \A k \in 1..Len(vectors["A"]) :
         vectors["A"][k].id \notin ReturnedIds(ret.val) =>
           \A i \in 1..Len(ret.val) :
             SimLeq(cosineSimilarity(ret.query, vectors["A"][k].embedding),
                    ret.val[i].similarity)

C3_Witness ==
  /\ ret.op = "search" /\ ret.err = "" /\ ret.limit = 2
  /\ Len(ret.val) = 2
  /\ count(vectors["A"]) = 3
  /\ ~SimEq(ret.val[1].similarity, ret.val[2].similarity)
  /\ ret.val[1].entry.id = vectors["A"][3].id
  /\ \E k \in 1..3 :
       /\ vectors["A"][k].id \notin ReturnedIds(ret.val)
       /\ SimGeq(cosineSimilarity(ret.query, vectors["A"][k].embedding),
                 SimOfRatio(ret.threshold))

\* C4: all stored embeddings have the same length (an entry of another
\* length is refused)
C4_EmbeddingLengthsUniform ==
  \A i, j \in 1..Len(vectors["A"]) :
    Len(vectors["A"][i].embedding) = Len(vectors["A"][j].embedding)

\* some stored embedding has another length than the query
HasMismatch(m, q) == \E i \in 1..Len(m) : Len(m[i].embedding) # Len(q)

\* C5: search fails whenever some stored embedding has a length other than
\* the query's, whatever the limit, the threshold and the entry's position,
\* and returns no list then
C5_SearchFailsOnAnyMismatch ==
  (ret.op = "search" /\ HasMismatch(vectors["A"], ret.query)) =>
    /\ ret.err = "Vectors must have the same length"
    /\ ret.val = <<>>

C5_Witness ==
  /\ ret.op = "search" /\ ret.err # ""
  /\ ret.limit = 0 /\ ret.threshold = <<9, 10>>
  /\ count(vectors["A"]) = 3
  /\ Len(vectors["A"][1].embedding) = Len(ret.query)
  /\ Len(vectors["A"][2].embedding) = Len(ret.query)
  /\ Len(vectors["A"][3].embedding) # Len(ret.query)

\* C6: delete(id) returns true exactly when id is stored at the call, and
\* then get(id) is null, count() is one less and the file holds the new
\* collection; a delete that returns false changes nothing
C6_DeleteReturnsWhetherStored ==
  [][ ret'.op = "delete" =>
        /\ ret'.val = MapHas(vectors["A"], ret'.id)
        /\ ret'.val =>
             /\ get(vectors'["A"], ret'.id) = Null
             /\ count(vectors'["A"]) = count(vectors["A"]) - 1
             /\ file' = saveVectors(vectors'["A"])
        /\ ~ret'.val => (vectors' = vectors /\ file' = file) ]_vars

C6_Witness ==
  /\ ret.op = "delete" /\ ret.val = TRUE
  /\ count(vectors["A"]) = 2
  /\ ~MapHas(vectors["A"], ret.id)
  /\ Len(file.data) = 2

\* C7: after clear() the store is empty for count, getAll, get and search,
\* and the file holds the empty collection
C7_ClearEmptiesStoreAndFile ==
  /\ ret.op = "clear" =>
       /\ count(vectors["A"]) = 0
       /\ getAll(vectors["A"]) = <<>>
       /\ \A id \in Ids : get(vectors["A"], id) = Null
       /\ \A q \in QueryEmbeddings, l \in Limits, t \in Thresholds :
            search(vectors["A"], q, l, t) = [err |-> "", val |-> <<>>]
       /\ file = [state |-> "array", data |-> <<>>]
       /\ count(loadVectors(file)) = 0
  /\ (ret.op = "search" /\ count(vectors["A"]) = 0) => (ret.err = "" /\ ret.val = <<>>)

C7_Witness ==
  /\ ret.op = "clear"
  /\ vectors["A"] = <<>>
  /\ file.state = "array" /\ file.data = <<>>

\* the file is missing, unreadable, not JSON, not a list, or a list with a
\* malformed element
Corrupt(f) ==
  \/ f.state # "array"
  \/ \E i \in 1..Len(f.data) : "entry" \notin DOMAIN f.data[i]

\* C8: a store constructed on a missing, unreadable or corrupt file is
\* empty; it never holds a part of the file's entries
C8_CorruptFileGivesEmptyStore ==
  (ret.op = "new" /\ Corrupt(file)) => count(vectors[ret.inst]) = 0

(***************************************************************************)
(* Properties of skill execution (specification SpecSkills)                *)
(***************************************************************************)
RegisteredIds == { skills[i].id : i \in 1..Len(skills) }

C10_SkillFaultBecomesFailedResult ==
  [][ (ret'.op = "executeSkill" /\ ret'.via = "SkillManager" /\ ret'.id \in RegisteredIds) =>
        /\ ret'.err = ""
        /\ Len(executionHistory') = Len(executionHistory) + 1
        /\ SubSeq(executionHistory', 1, Len(executionHistory)) = executionHistory
        /\ executionHistory'[Len(executionHistory')].skillId = ret'.id
        /\ executionHistory'[Len(executionHistory')].result = ret'.val
        /\ historyFile' = saveHistory(executionHistory')
        /\ ret'.outcome.kind = "resolve" => ret'.val = ret'.outcome.result
        /\ ret'.outcome.kind = "throw" =>
             /\ ret'.val.success = FALSE
             /\ ret'.val.error =
                  IF ret'.outcome.isError THEN ret'.outcome.message ELSE ret'.outcome.value ]_vars

C10_Witness ==
  /\ ret.op = "executeSkill" /\ ret.via = "SkillManager" /\ ret.err = ""
  /\ ret.outcome.kind = "throw" /\ ret.outcome.isError
  /\ ret.val.error = "boom"
  /\ Len(executionHistory) = 2
  /\ executionHistory[1].result.success
  /\ historyFile.data[2].result.success = FALSE

\* the calls whose skill settles in this step
Settling == { call \in pending : call.stage = "execute" /\ call \notin pending' }

\* C11: the history is append-only: a step in which the skill of an
\* executeSkill call settles appends exactly one record, for that skill id
\* and context, at the end; clearHistory empties the history; every other
\* step leaves the history as it is, so no record is removed, moved or
\* changed and the length never decreases between two clearHistory calls
C11_HistoryIsAppendOnly ==
  [][ /\ ret'.op # "clearHistory" =>
           /\ Len(executionHistory') >= Len(executionHistory)
           /\ SubSeq(executionHistory', 1, Len(executionHistory)) = executionHistory
      /\ \A call \in Settling :
           /\ Len(executionHistory') = Len(executionHistory) + 1
           /\ LET last == executionHistory'[Len(executionHistory')]
              IN /\ DOMAIN last = {"skillId", "context", "result", "timestamp"}
                 /\ last.skillId = call.skillId
                 /\ last.context = call.context
                 /\ last.timestamp.kind = "Date"
      /\ (Settling = {} /\ ret'.op # "clearHistory") => executionHistory' = executionHistory
      /\ ret'.op = "clearHistory" => executionHistory' = <<>> ]_vars

C11_Witness ==
  /\ ret.op = "executeSkill" /\ ret.err = ""
  /\ Len(executionHistory) = 2
  /\ executionHistory[1].skillId # executionHistory[2].skillId
  /\ executionHistory[1].result.success # executionHistory[2].result.success

(***************************************************************************)
(* Properties of recommendSkills (specification SpecRecommend)             *)
(***************************************************************************)
\* the history has a record for the skill's own id in a similar context
HasMatchingHistory(skillId, context) ==
  \E i \in 1..Len(executionHistory) :
    /\ executionHistory[i].skillId = skillId
    /\ isSimilarContext(executionHistory[i].context, context)

\* C13: every recommendation returned by recommendSkills has a confidence
\* in [0,1], and the historical success rate of a skill without a history
\* record that is for its own id and similar to the query is exactly 0.5
C13_ConfidenceInUnitInterval ==
  ret.op = "recommendSkills" =>
    \A i \in 1..Len(ret.val) :
      LET r == ret.val[i]
      IN /\ r.confidence[2] > 0
         /\ 0 <= r.confidence[1]
         /\ r.confidence[1] <= r.confidence[2]
         /\ ~HasMatchingHistory(r.skill.id, ret.context) =>
              2 * r.historicalSuccessRate[1] = r.historicalSuccessRate[2]

C13_Witness ==
  /\ ret.op = "recommendSkills"
  /\ \E i \in 1..Len(ret.val) : ret.val[i].confidence[1] = ret.val[i].confidence[2]
  /\ \E i \in 1..Len(ret.val) :
       /\ ~HasMatchingHistory(ret.val[i].skill.id, ret.context)
       /\ \E k \in 1..Len(executionHistory) :
            executionHistory[k].skillId = ret.val[i].skill.id

\* the confidence recommendSkills has for a registered skill
ConfidenceOf(skill, context) ==
  Confidence(calculateSuccessRate(executionHistory, skill.id, context),
             calculateRelevance(skill, context))

\* C14: for limit >= 0 recommendSkills returns min(limit, number of
\* registered skills) recommendations, each for another registered skill,
\* each with a confidence that is the mean of the skill's success rate and
\* relevance, in order of descending confidence, and no skill left out has
\* a confidence above a returned one
C14_RecommendIsSortedTopK ==
  (ret.op = "recommendSkills" /\ ret.limit >= 0) =>
    /\ Len(ret.val) = IF ret.limit < Len(skills) THEN ret.limit ELSE Len(skills)
    /\ \A i, j \in 1..Len(ret.val) : i < j =>
         /\ ret.val[i].skill.id # ret.val[j].skill.id
         /\ SimGeq(ret.val[i].confidence, ret.val[j].confidence)
    /\ \A i \in 1..Len(ret.val) :
         LET r == ret.val[i]
             rate == r.historicalSuccessRate
             relevance == calculateRelevance(r.skill, ret.context)
         IN /\ \E k \in 1..Len(skills) : skills[k] = r.skill
            /\ rate = calculateSuccessRate(executionHistory, r.skill.id, ret.context)
            \* 2 * confidence = rate + relevance / 10
            /\ 20 * rate[2] * r.confidence[1] =
                 r.confidence[2] * (10 * rate[1] + relevance * rate[2])
    /\ \A k \in 1..Len(skills) :
         (\A i \in 1..Len(ret.val) : ret.val[i].skill.id # skills[k].id) =>
           \A i \in 1..Len(ret.val) :
             SimLeq(ConfidenceOf(skills[k], ret.context), ret.val[i].confidence)

C14_Witness ==
  /\ ret.op = "recommendSkills" /\ ret.limit = 2
  /\ Len(ret.val) = 2 /\ Len(skills) = 6
  /\ ~SimEq(ret.val[1].confidence, ret.val[2].confidence)
  /\ ret.val[1].skill.id = "refactoring"
  /\ ret.val[2].skill.id = skills[1].id
  /\ executionHistory # <<>>

(***************************************************************************)
(* Properties of the persisted history (specification SpecRecommend)       *)
(***************************************************************************)
\* two histories hold the same records in the same order: skill id, query,
\* result (success flag, output, error) and timestamp
SameHistory(x, y) ==
  /\ Len(x) = Len(y)
  /\ \A i \in 1..Len(x) :
       /\ x[i].skillId = y[i].skillId
       /\ x[i].context.query = y[i].context.query
       /\ x[i].result.success = y[i].result.success
       /\ x[i].result.output = y[i].result.output
       /\ ("error" \in DOMAIN x[i].result) = ("error" \in DOMAIN y[i].result)
       /\ "error" \in DOMAIN x[i].result => x[i].result.error = y[i].result.error
       /\ x[i].timestamp = y[i].timestamp

SuppliedLimit(options) == IF "limit" \in DOMAIN options THEN options.limit ELSE 5
SuppliedThreshold(options) ==
  IF "threshold" \in DOMAIN options THEN options.threshold ELSE similarityThreshold

\* C15: recall applies the limit (>= 0) and the threshold (0 included) the
\* caller supplies and the defaults only for options not supplied: it
\* returns what search returns for them, so at most `limit` results, all
\* of them at or above `threshold`
C15_RecallAppliesSuppliedOptions ==
  (ret.op = "recall" /\ ret.err = "" /\ SuppliedLimit(ret.options) >= 0) =>
    /\ Len(ret.val) <= SuppliedLimit(ret.options)
    /\ \A i \in 1..Len(ret.val) :
         SimGeq(ret.val[i].similarity, SimOfRatio(SuppliedThreshold(ret.options)))
    /\ ret.val = search(vectors["A"], embed(<<ret.query>>), SuppliedLimit(ret.options),
                        SuppliedThreshold(ret.options)).val

\* the extension convertToText looks at
ExtensionOf(doc) == toLowerCase(extname(doc.path))

C20_IngestStoresOneEntryPerChunk ==
  [][ (ret'.op = "ingest" /\ ret'.err = "") =>
        LET n == Len(ret'.chunks)
            ids == ret'.val
        IN /\ n >= 1
           /\ ret'.chunks = chunkText(ret'.doc.text, ChunkSizeOf(ret'.options))
           /\ ret'.doc.text = "" => ret'.chunks = <<"">>
           /\ Len(ids) = n
           /\ \A i, j \in 1..n : i # j => ids[i] # ids[j]
           /\ count(vectors'["A"]) = count(vectors["A"]) + n
           /\ \A id \in MapKeys(vectors["A"]) :
                get(vectors'["A"], id) = get(vectors["A"], id)
           /\ \A i \in 0..(n - 1) :
                LET e == get(vectors'["A"], ids[i + 1])
                IN /\ e # Null
                   /\ e.id = ids[i + 1]
                   /\ e.content = <<ret'.chunks[i + 1]>>
                   /\ e.metadata.type = Str("document")
                   /\ e.metadata.context =
                        Obj([chunkIndex |-> i, totalChunks |-> n,
                             originalFormat |->
                               SubSeq(ExtensionOf(ret'.doc), 2, Len(ExtensionOf(ret'.doc)))]) ]_vars

C20_Witness ==
  /\ ret.op = "ingest" /\ ret.err = ""
  /\ Len(ret.val) = 2
  /\ count(vectors["A"]) = 3
  /\ vectors["A"][1].entry.content = <<"">>
  /\ vectors["A"][2].id = ret.val[1] /\ vectors["A"][2].entry.content = <<"review code">>
  /\ vectors["A"][3].id = ret.val[2]
  /\ vectors["A"][3].entry.metadata.context.v.chunkIndex = 1

(***************************************************************************)
(* Properties of two stores on one path (specification SpecTwoWriters)     *)
(***************************************************************************)
\* what a caller can observe of two entries, or null, being the same
SameEntry(a, b) ==
  IF a = Null \/ b = Null THEN a = b
  ELSE /\ a.id = b.id
       /\ a.content = b.content
       /\ \A k \in MetaKeys : Prop(a.metadata, k) = Prop(b.metadata, k)
       /\ a.timestamp = b.timestamp

\* C16: with A and B constructed on one path, when A.store(x) and then
\* B.store(y) have completed the file is B's snapshot: a store constructed
\* from it holds y and the entries B held (those it loaded and its own),
\* and x only if B held an entry like it or y is like it
C16_LastWriterWins ==
  [][ (/\ ret.op = "store" /\ ret.inst = "A" /\ "B" \in constructed
       /\ ret'.op = "store" /\ ret'.inst = "B") =>
        LET reopened == loadVectors(file')
            x == ret.entry
            y == ret'.entry
        IN /\ file' = saveVectors(vectors'["B"])
           /\ vectors'["A"] = vectors["A"]
           /\ MapKeys(reopened) = MapKeys(vectors["B"]) \cup {y.id}
           /\ SameEntry(get(reopened, y.id), y)
           /\ \A id \in MapKeys(vectors["B"]) \ {y.id} :
                SameEntry(get(reopened, id), get(vectors["B"], id))
           /\ (~SameEntry(get(vectors["B"], x.id), x) /\ ~SameEntry(y, x)) =>
                ~SameEntry(get(reopened, x.id), x)
           /\ (~MapHas(vectors["B"], x.id) /\ y.id # x.id) => get(reopened, x.id) = Null ]_vars

C16_Witness ==
  /\ constructed = {"A", "B"}
  /\ ret.op = "store" /\ ret.inst = "B"
  /\ count(vectors["B"]) = 2
  /\ count(vectors["A"]) = 2
  /\ \E id \in MapKeys(vectors["A"]) : id \notin MapKeys(vectors["B"])
  /\ MapKeys(loadVectors(file)) = MapKeys(vectors["B"])

(***************************************************************************)
(* Order of search results (specification Spec)                            *)
(***************************************************************************)
\* the ids of a Map in iteration order, and the place of an id in it
IdsOf(m) == [i \in 1..Len(m) |-> m[i].id]
Position(m, id) == CHOOSE i \in 1..Len(m) : m[i].id = id

\* C17: search is a function of the store and its arguments: a search
\* repeated right away returns the same list, and results of equal
\* similarity come in the order of the Map, which is the order of first
\* insertion: store of a new id puts it last, store of an id already there
\* keeps its place, delete takes only that id out
C17_SearchOrderIsInsertionOrder ==
  [][ /\ (ret'.op = "search" /\ ret'.err = "") =>
           /\ \A i, j \in 1..Len(ret'.val) :
                (i < j /\ SimEq(ret'.val[i].similarity, ret'.val[j].similarity)) =>
                  Position(vectors["A"], ret'.val[i].entry.id) <
                    Position(vectors["A"], ret'.val[j].entry.id)
           /\ (/\ ret.op = "search" /\ ret.query = ret'.query
               /\ ret.limit = ret'.limit /\ ret.threshold = ret'.threshold) =>
                ret'.val = ret.val
      /\ (ret'.op = "store" /\ ret'.inst = "A") =>
           IdsOf(vectors'["A"]) =
             IF MapHas(vectors["A"], ret'.id) THEN IdsOf(vectors["A"])
             ELSE Append(IdsOf(vectors["A"]), ret'.id)
      /\ (ret'.op = "delete" /\ ret'.inst = "A") =>
           IdsOf(vectors'["A"]) = SelectSeq(IdsOf(vectors["A"]), LAMBDA id : id # ret'.id)
      /\ ret'.op \notin {"store", "delete", "clear"} =>
           IdsOf(vectors'["A"]) = IdsOf(vectors["A"]) ]_vars

C17_Witness ==
  /\ ret.op = "search" /\ ret.err = ""
  /\ Len(ret.val) = 3
  /\ ~SimEq(ret.val[1].similarity, ret.val[2].similarity)
  /\ SimEq(ret.val[2].similarity, ret.val[3].similarity)
  /\ ret.val[1].entry.id = vectors["A"][2].id
  /\ ret.val[2].entry.id = vectors["A"][1].id
  /\ ret.val[3].entry.id = vectors["A"][3].id
  /\ ret.val[2].entry.content = <<"c2">>

(***************************************************************************)
(* Properties of the embedding service (specification SpecEmbedding)       *)
(***************************************************************************)
\* C18: embed does not fail and every vector it returns has the length of
\* the one returned before it, whether the model loaded, failed to load or
\* fails on the call; once the service is initialized isReady stays true
C18_EmbedKeepsOneLength ==
  [][ /\ ret'.op = "embed" => ret'.err = ""
      /\ (ret.op = "embed" /\ ret'.op = "embed") => Len(ret'.val) = Len(ret.val)
      /\ embeddingService.isInitialized => embeddingService'.isInitialized
      /\ ret'.op = "isReady" => ret'.val = embeddingService'.isInitialized ]_vars

(***************************************************************************)
(* Properties of AgentMemory.clear (specification SpecClear)               *)
(***************************************************************************)
EmptyFile == [state |-> "array", data |-> <<>>]

\* C21: AgentMemory.clear() empties the vector store and the skill history
\* and persists both empty states: getStats then reports a total of 0 with
\* no oldest and no newest timestamp, getSkillHistory is empty for every
\* skill, every skill's success rate is 0.5, and the registered skills are
\* the ones registered before; getStats of an empty store is always so
C21_ClearEmptiesMemoriesAndHistory ==
  [][ /\ ret'.op = "AgentMemory.clear" =>
           /\ getStats(vectors'["A"]).totalMemories = 0
           /\ getStats(vectors'["A"]).oldestMemory = Undefined
           /\ getStats(vectors'["A"]).newestMemory = Undefined
           /\ DOMAIN getStats(vectors'["A"]).memoryTypes = {}
           /\ file' = EmptyFile
           /\ count(loadVectors(file')) = 0
           /\ historyFile' = EmptyFile
           /\ NewSkillManager(historyFile').executionHistory = <<>>
           /\ \A i \in 1..Len(skills') :
                /\ getSkillHistory(executionHistory', skills'[i].id) = <<>>
                /\ \A q \in Queries :
                     calculateSuccessRate(executionHistory', skills'[i].id, [query |-> q])
                       = <<1, 2>>
           /\ skills' = skills
      /\ (ret'.op = "getStats" /\ ret.op = "AgentMemory.clear") =>
           /\ ret'.val.totalMemories = 0
           /\ ret'.val.oldestMemory = Undefined
           /\ ret'.val.newestMemory = Undefined ]_vars

C21_Witness ==
  /\ ret.op = "AgentMemory.clear"
  /\ ret.memories = 3 /\ ret.records = 2
  /\ Len(skills) = 6
  /\ vectors["A"] = <<>> /\ executionHistory = <<>>
  /\ file = EmptyFile /\ historyFile = EmptyFile

(***************************************************************************)
(* Overwriting a stored id (specification Spec)                            *)
(***************************************************************************)
\* the results search returns for the id, whatever the similarity
ResultsFor(m, q, id) ==
  SelectSeq(search(m, q, 5, <<0 - 1, 1>>).val, LAMBDA r : r.entry.id = id)

\* C22: store(e2, v2) with an id already stored replaces the whole record
\* and adds none: count() is the same, ids stay unique, the other records
\* are untouched, get(id) returns e2, search returns the id once, with e2
\* and the similarity of v2, and the file holds one item for the id, the
\* one written for e2 and v2
C22_StoreOverwritesWholeRecord ==
  [][ (ret'.op = "store" /\ ret'.inst = "A" /\ MapHas(vectors["A"], ret'.id)) =>
        LET m == vectors'["A"]
            id == ret'.id
            e2 == ret'.entry
            v2 == ret'.embedding
        IN /\ count(m) = count(vectors["A"])
           /\ Cardinality(MapKeys(m)) = count(m)
           /\ \A i \in 1..Len(m) :
                m[i] = IF vectors["A"][i].id = id
                         THEN [id |-> id, entry |-> e2, embedding |-> v2]
                         ELSE vectors["A"][i]
           /\ get(m, id) = e2
           /\ \A q \in QueryEmbeddings :
                ~HasMismatch(m, q) =>
                  ResultsFor(m, q, id) =
                    << [entry |-> e2, similarity |-> cosineSimilarity(q, v2)] >>
           /\ file'.state = "array"
           /\ Len(file'.data) = count(m)
           /\ \A i \in 1..Len(file'.data) :
                file'.data[i].id = id => file'.data[i] = SavedItem(<<e2, v2>>)
           /\ Cardinality({ i \in 1..Len(file'.data) : file'.data[i].id = id }) = 1 ]_vars

C22_Witness ==
  /\ ret.op = "store" /\ ret.inst = "A" /\ ret.id = "m3"
  /\ count(vectors["A"]) = 3
  /\ vectors["A"][1].id = "m3"
  /\ vectors["A"][1].entry.metadata = MetaDocument
  /\ vectors["A"][1].embedding = <<0 - 1, 1>>
  /\ DOMAIN file.data[1].entry.metadata = {"type"}

(***************************************************************************)
(* Properties of the chunker (specification SpecChunk)                     *)
(***************************************************************************)
\* the paragraphs of the chunks, in order
RECURSIVE ParagraphsOf(_)
ParagraphsOf(chunks) ==
  IF chunks = <<>> THEN <<>>
  ELSE splitParagraphs(Head(chunks)) \o ParagraphsOf(Tail(chunks))

NonEmpty(paragraphs) == SelectSeq(paragraphs, LAMBDA p : p # "")

\* every paragraph of the text is in the chunks once, in document order;
\* a text without a paragraph is one chunk
ChunksHoldEveryParagraph ==
  ret.op = "chunkText" =>
    IF NonEmpty(splitParagraphs(ret.text)) = <<>> THEN ret.val = <<ret.text>>
    ELSE NonEmpty(ParagraphsOf(ret.val)) = NonEmpty(splitParagraphs(ret.text))

\* C23: a chunk of two or more paragraphs is at most maxChunkSize long,
\* separators included; a chunk longer than maxChunkSize is one paragraph
\* that is itself longer; the chunks hold every paragraph of the text once,
\* in document order
C23_ChunksRespectLimit ==
  (ret.op = "chunkText" /\ NonEmpty(splitParagraphs(ret.text)) # <<>>) =>
    /\ \A i \in 1..Len(ret.val) :
         LET chunk == ret.val[i]
         IN /\ Len(splitParagraphs(chunk)) >= 2 => Len(chunk) <= ret.maxChunkSize
            /\ Len(chunk) > ret.maxChunkSize =>
                 /\ Len(splitParagraphs(chunk)) = 1
                 /\ \E k \in 1..Len(splitParagraphs(ret.text)) :
                      splitParagraphs(ret.text)[k] = chunk
    /\ ChunksHoldEveryParagraph

(***************************************************************************)
(* Properties of the success rate (specification SpecRate)                 *)
(***************************************************************************)
\* the words of a query without regard to case
WordSet(query) == { w \in SetOf(split(toLowerCase(query))) : w # "" }

\* the Jaccard similarity of the two word sets is above 0.3
JaccardAbove(q1, q2) ==
  10 * Cardinality(WordSet(q1) \cap WordSet(q2)) >
    3 * Cardinality(WordSet(q1) \cup WordSet(q2))

\* the records of the skill whose query is similar to q
SimilarRecords(skillId, q) ==
  { i \in 1..Len(executionHistory) :
      /\ executionHistory[i].skillId = skillId
      /\ JaccardAbove(executionHistory[i].context.query, q) }

\* C24: the historical success rate of a skill for a query is the number
\* of history records of that skill id with a similar query and success
\* divided by the number of records of that id with a similar query, two
\* queries being similar exactly when the Jaccard similarity of their word
\* sets, case apart, is above 0.3; records of other ids or of queries that
\* are not similar do not count, so without a counted record the rate is
\* the default 0.5; a query is similar to itself
C24_SuccessRateCountsSimilarRecords ==
  ret.op = "recommendSkills" =>
    /\ \A i \in 1..Len(ret.val) :
         LET rate == ret.val[i].historicalSuccessRate
             similar == SimilarRecords(ret.val[i].skill.id, ret.context.query)
             successes == { k \in similar : executionHistory[k].result.success }
         IN IF similar = {} THEN 2 * rate[1] = rate[2]
            ELSE rate[1] * Cardinality(similar) = Cardinality(successes) * rate[2]
    /\ isSimilarContext(ret.context, ret.context)
    /\ \A k \in 1..Len(executionHistory) :
         isSimilarContext(executionHistory[k].context, executionHistory[k].context)

(***************************************************************************)
(* Properties of the relevance score (specification SpecRate)              *)
(***************************************************************************)
\* the places of the query's words of more than three characters that the
\* text contains, case apart
PlacesIn(query, text) ==
  LET words == split(toLowerCase(query))
  IN { i \in 1..Len(words) : Len(words[i]) > 3 /\ includes(toLowerCase(text), words[i]) }

\* 0.3 for each such word in the name and 0.2 for each in the description,
\* in tenths and capped at 1.0
RelevanceSum(skill, query) ==
  LET sum == 3 * Cardinality(PlacesIn(query, skill.name))
             + 2 * Cardinality(PlacesIn(query, skill.description))
  IN IF sum > 10 THEN 10 ELSE sum

\* C25: the relevance of a skill for a query, which is twice the confidence
\* less the success rate, is the sum over the query's whitespace-separated
\* words longer than 3 of 0.3 when the name contains the word and 0.2 when
\* the description does, case apart, capped at 1.0; it is 0 when no such
\* word is in the name or the description
C25_RelevanceIsCappedKeywordSum ==
  ret.op = "recommendSkills" =>
    \A i \in 1..Len(ret.val) :
      LET c == ret.val[i].confidence
          s == ret.val[i].historicalSuccessRate
          skill == ret.val[i].skill
          relevance == RelevanceSum(skill, ret.context.query)
      IN /\ relevance * c[2] * s[2] = 20 * c[1] * s[2] - 10 * s[1] * c[2]
         /\ (PlacesIn(ret.context.query, skill.name) = {}
               /\ PlacesIn(ret.context.query, skill.description) = {}) =>
              2 * c[1] * s[2] = s[1] * c[2]

C25_Witness ==
  /\ ret.op = "recommendSkills"
  /\ ret.context.query = "Code code review now"
  /\ \E i \in 1..Len(ret.val) :
       /\ ret.val[i].skill.id = "code-review"
       /\ 3 * Cardinality(PlacesIn(ret.context.query, ret.val[i].skill.name))
            + 2 * Cardinality(PlacesIn(ret.context.query, ret.val[i].skill.description)) > 10
       /\ 20 * ret.val[i].confidence[1] * ret.val[i].historicalSuccessRate[2] =
            ret.val[i].confidence[2] * (10 * ret.val[i].historicalSuccessRate[1]
                                         + 10 * ret.val[i].historicalSuccessRate[2])
  /\ \E i \in 1..Len(ret.val) : RelevanceSum(ret.val[i].skill, ret.context.query) = 0
  /\ \E i \in 1..Len(ret.val) : RelevanceSum(ret.val[i].skill, ret.context.query) = 4
  /\ executionHistory # <<>>

(***************************************************************************)
(* Properties of the fallback embedding (specification SpecEmbedding)      *)
(***************************************************************************)
\* the vector has a component that is not 0: the normalisation of
\* simpleFallbackEmbedding divides such a vector by its norm, which makes
\* its Euclidean norm 1, and leaves the all-zero vector as it is
NotAllZero(v) == \E k \in 1..Len(v) : v[k] # 0

\* C26: with the model unavailable embed returns the fallback vector of the
\* text, whatever was embedded before: 384 numbers, of Euclidean norm 1 for
\* every text that is not empty, all zero only for the empty text
C26_FallbackIsNormalised ==
  (ret.op = "embed" /\ embeddingService.embedder = "null") =>
    /\ Len(ret.val) = 384
    /\ \A callFails \in BOOLEAN :
         ret.val = embedWith(NewEmbeddingService(DefaultModel), ret.text, callFails)
    /\ ret.text # "" => NotAllZero(ret.val)
    /\ ~NotAllZero(ret.val) => ret.text = ""

(***************************************************************************)
(* Properties of recall with filters (specification SpecFilter)            *)
(***************************************************************************)
\* the options without the filters
Unfiltered(options) == [k \in DOMAIN options \ {"filters"} |-> options[k]]

TagsOf(entry) ==
  IF Prop(entry.metadata, "tags") = Undefined THEN {} ELSE SetOf(entry.metadata.tags.v)

\* the entry passes every filter that is given
PassesGiven(entry, filters) ==
  /\ "type" \in DOMAIN filters => Prop(entry.metadata, "type") = Str(filters.type)
  /\ "source" \in DOMAIN filters => Prop(entry.metadata, "source") = Str(filters.source)
  /\ "tags" \in DOMAIN filters => SetOf(filters.tags) \cap TagsOf(entry) # {}

\* the entry passes every filter that is given and not empty
PassesGivenNonEmpty(entry, filters) ==
  /\ ("type" \in DOMAIN filters /\ filters.type # "") =>
       Prop(entry.metadata, "type") = Str(filters.type)
  /\ ("source" \in DOMAIN filters /\ filters.source # "") =>
       Prop(entry.metadata, "source") = Str(filters.source)
  /\ ("tags" \in DOMAIN filters /\ filters.tags # <<>>) =>
       SetOf(filters.tags) \cap TagsOf(entry) # {}

\* C27 as stated: recall with filters returns the results of the same
\* recall without filters that pass every given filter (type equal, source
\* equal, one of filters.tags among the entry's tags), in the same order
C27_RecallFiltersAfterLimit_Stated ==
  (ret.op = "recall" /\ ret.err = "" /\ "filters" \in DOMAIN ret.options) =>
    ret.val = SelectSeq(recall(ret.query, Unfiltered(ret.options)).val,
                        LAMBDA r : PassesGiven(r.entry, ret.options.filters))

\* C27: recall with filters returns the results of the same recall without
\* filters (cut at the limit before the filters are applied) that pass
\* every filter that is given and not empty, in the same order; an empty
\* list of tags, like an empty type or source, filters nothing
C27_RecallFiltersAfterLimit ==
  (ret.op = "recall" /\ ret.err = "" /\ "filters" \in DOMAIN ret.options) =>
    /\ ret.val = SelectSeq(recall(ret.query, Unfiltered(ret.options)).val,
                           LAMBDA r : PassesGivenNonEmpty(r.entry, ret.options.filters))
    /\ Len(ret.val) <= Len(recall(ret.query, Unfiltered(ret.options)).val)

C27_Witness ==
  /\ ret.op = "recall" /\ ret.err = ""
  /\ "filters" \in DOMAIN ret.options
  /\ ret.options.filters = [tags |-> <<"v2", "auth">>]
  /\ "limit" \in DOMAIN ret.options /\ ret.options.limit = 2
  /\ count(vectors["A"]) = 3
  /\ Len(recall(ret.query, Unfiltered(ret.options)).val) = 2
  /\ Len(ret.val) = 1
  /\ ret.val[1] = recall(ret.query, Unfiltered(ret.options)).val[2]
  /\ \E i \in 1..3 :
       /\ vectors["A"][i].id \notin ReturnedIds(recall(ret.query, Unfiltered(ret.options)).val)
       /\ PassesGiven(vectors["A"][i].entry, ret.options.filters)

(***************************************************************************)
(* Properties of overlapping executions (specification SpecOverlap)        *)
(***************************************************************************)
\* C28: however executeSkill calls on one SkillManager overlap, a call that
\* starts adds no record, and each skill that finishes, failed or not, adds
\* exactly one record, for its own call, at the end of the history, and the
\* file then holds the history in memory; so once all N calls have returned
\* the history has N new records, one per call, in the order the skills
\* finished, none lost, duplicated or overwritten
C28_OverlappingCallsEachAddOneRecord ==
  [][ /\ Cardinality(Settling) <= 1
      /\ \A call \in Settling :
           /\ pending' = pending \ {call}
           /\ Len(executionHistory') = Len(executionHistory) + 1
           /\ SubSeq(executionHistory', 1, Len(executionHistory)) = executionHistory
           /\ LET last == executionHistory'[Len(executionHistory')]
              IN /\ last.skillId = call.skillId
                 /\ last.context = call.context
                 /\ last.result = ret'.val
                 /\ ret'.cid = call.cid
           /\ historyFile' = saveHistory(executionHistory')
           /\ SameHistory(loadHistory(historyFile'), executionHistory')
      /\ Settling = {} =>
           /\ executionHistory' = executionHistory
           /\ historyFile' = historyFile
           /\ pending \subseteq pending'
           /\ Cardinality(pending') <= Cardinality(pending) + 1 ]_vars

C28_Witness ==
  /\ pending = {}
  /\ ret.op = "executeSkill" /\ ret.err = "" /\ ret.cid = 2
  /\ Len(executionHistory) = 2
  /\ executionHistory[1].skillId # executionHistory[2].skillId
  /\ executionHistory[1].result.success = FALSE
  /\ executionHistory[2].result.success
  /\ historyFile = saveHistory(executionHistory)

(***************************************************************************)
(* Properties of AgentMemory.executeSkill (specification SpecSkills)       *)
(***************************************************************************)
\* the call of AgentMemory.executeSkill that ends in this step
AgentCallEnds == ret'.op = "executeSkill" /\ ret'.via = "AgentMemory" /\ ret' # ret

\* what a call that went through has done by its end: the history got its
\* record when the skill settled, and this step stores one new entry
ExperienceStored ==
  /\ executionHistory # <<>>
  /\ executionHistory' = executionHistory
  /\ executionHistory[Len(executionHistory)].skillId = ret'.id
  /\ executionHistory[Len(executionHistory)].result = ret'.val
  /\ count(vectors'["A"]) = count(vectors["A"]) + 1
  /\ ~MapHas(vectors["A"], ret'.memoryId)
  /\ \A id \in MapKeys(vectors["A"]) : get(vectors'["A"], id) = get(vectors["A"], id)
  /\ LET e == get(vectors'["A"], ret'.memoryId)
     IN /\ e # Null
        /\ e.metadata.type = Str("experience")
        /\ e.metadata.tags = Arr(<<"skill-execution", ret'.id>>)
        /\ e.metadata.context = Obj([skillId |-> ret'.id, success |-> ret'.val.success])

\* C29: every AgentMemory.executeSkill call for a registered skill, whether
\* the skill succeeds, reports failure or throws, returns the result after
\* appending one record to the history (when the skill settles, leaving the
\* store alone) and then storing one new entry of type 'experience', tagged
\* 'skill-execution' and the skill id, with the skill id and the success
\* flag as context
C29_ExecuteSkillRecordsAndStores ==
  [][ /\ (AgentCallEnds /\ ret'.id \in RegisteredIds) =>
           /\ ret'.err = ""
           /\ ExperienceStored
      /\ \A call \in Settling :
           /\ Len(executionHistory') = Len(executionHistory) + 1
           /\ vectors' = vectors ]_vars

\* the same for the calls whose recall does not throw
ExecuteSkillRecordsAndStoresUnlessRecallThrows ==
  [][ /\ (AgentCallEnds /\ ret'.id \in RegisteredIds) =>
           IF ret'.err = ""
             THEN ExperienceStored
             ELSE /\ HasMismatch(vectors["A"], embed(<<ret'.query>>))
                  /\ UNCHANGED <<storeVars, skillVars>>
      /\ \A call \in Settling :
           /\ Len(executionHistory') = Len(executionHistory) + 1
           /\ vectors' = vectors ]_vars

(***************************************************************************)
(* Properties of the read operations (specification SpecReads)             *)
(***************************************************************************)
ReadOps == { "get", "getAll", "count", "search", "recommendSkills", "getSkills",
             "getSkillHistory" }

\* the value the read that ended in this step returns, from the state it
\* was called in
ReadsMemory ==
  /\ ret'.op = "get" => ret'.val = get(vectors["A"], ret'.id)
  /\ ret'.op = "getAll" =>
       /\ Len(ret'.val) = count(vectors["A"])
       /\ \A i \in 1..Len(ret'.val) : ret'.val[i] = vectors["A"][i].entry
  /\ ret'.op = "count" => ret'.val = Cardinality(MapKeys(vectors["A"]))
  /\ ret'.op = "search" =>
       /\ ret'.err = "" <=> ~HasMismatch(vectors["A"], ret'.query)
       /\ \A i \in 1..Len(ret'.val) :
            \E k \in 1..Len(vectors["A"]) :
              /\ ret'.val[i].entry = vectors["A"][k].entry
              /\ ret'.val[i].similarity =
                   cosineSimilarity(ret'.query, vectors["A"][k].embedding)
  /\ ret'.op = "recommendSkills" =>
       /\ Len(ret'.val) = 3
       /\ \A i \in 1..Len(ret'.val) :
            /\ \E k \in 1..Len(skills) : skills[k] = ret'.val[i].skill
            /\ ret'.val[i].historicalSuccessRate =
                 calculateSuccessRate(executionHistory, ret'.val[i].skill.id, ret'.context)
  /\ ret'.op = "getSkills" => ret'.val = skills
  /\ ret'.op = "getSkillHistory" =>
       /\ \A i \in 1..Len(ret'.val) : ret'.val[i].skillId = ret'.id
       /\ Len(ret'.val) =
            Cardinality({ k \in 1..Len(executionHistory) : executionHistory[k].skillId = ret'.id })
  /\ ret'.op = "delete" => ret'.val = MapHas(vectors["A"], ret'.id)

\* C30: get, getAll, count, search, recommendSkills, getSkills and
\* getSkillHistory, and delete of an id that is not stored, leave the
\* stored entries, the registered skills, the history, the calls in flight
\* and both files as they are, and return a value of the state in memory at
\* the call
C30_ReadsHaveNoEffect ==
  [][ /\ (ret'.op \in ReadOps \/ (ret'.op = "delete" /\ ~MapHas(vectors["A"], ret'.id))) =>
           /\ vectors' = vectors
           /\ file' = file
           /\ skills' = skills
           /\ executionHistory' = executionHistory
           /\ historyFile' = historyFile
           /\ pending' = pending
      /\ ReadsMemory ]_vars

C30_Witness ==
  /\ ret.op = "delete" /\ ret.val = FALSE /\ ret.id = "m3"
  /\ count(vectors["A"]) = 2
  /\ Len(executionHistory) = 2
  /\ Len(skills) = 6
  /\ Len(file.data) = 2 /\ Len(historyFile.data) = 2

====
